---- MODULE Spec2Model ----
(***************************************************************************)
(* AgentPulse API (src/api/src/index.ts, src/api/schema.sql): the          *)
(* ingestion, aggregation and alert-evaluation pipeline of the Worker.     *)
(*                                                                         *)
(* Time is in whole seconds (Date.now() / 1000).  JSON values of a request *)
(* body are tagged records, so that typeof, truthiness and the optional    *)
(* fields of the handlers are computed as the code computes them.  A batch *)
(* is run-length encoded: a sequence of segments, each standing for n      *)
(* consecutive copies of one event; a stored row group stands for n rows.  *)
(***************************************************************************)
EXTENDS Integers, Sequences, FiniteSets, TLC

VARIABLES
    now,          \* Date.now() / 1000
    agents,       \* table agents: tenant id -> [name, api_key_hash, email, plan]
    events,       \* table events: sequence of row groups, in rowid order
    cost_daily,   \* table cost_daily: set of rows keyed by (agent_id, date)
    alerts,       \* table alerts: sequence of rules, in id order
    nextAlertId,  \* AUTOINCREMENT of alerts.id
    heartbeats,   \* table heartbeats: tenant id -> ts (0: no row)
    registerAttempts, \* the Worker's map registerAttempts: ip -> [count, resetAt]
    sdk,          \* a client of the Node SDK: its queue and its flushes in flight
    reaper,       \* the scheduled handler: the statement it awaits, or "idle"
    reqs,         \* the /v1/ingest requests in flight, by slot
    evals,        \* the detached evaluateAlerts tasks, by slot
    resp,         \* the response last returned, with the request it answers
    deliveries,   \* webhook fetches and email sends made, in order
    budget        \* what is left of each bound of the model

vars == <<now, agents, registerAttempts, sdk, events, cost_daily, alerts, nextAlertId,
          heartbeats, reaper, reqs, evals, resp, deliveries, budget>>

----------------------------------------------------------------------------
(* Bounds of the model *)

NumTenants == 2
MaxInflight == 3
GateIngests == 2
GateTicks == 1
RaceIngests == 4
RaceTicks == 1
DedupIngests == 3
DedupTicks == 2
MaxIngests == 2
MaxOps == 1
MaxTicks == 1
MaxReads == 1
EvalIngests == 2
EvalTicks == 1
CostIngests == 2
CostTicks == 1
ReaperIngests == 1
ReaperTicks == 1
ReaperOps == 2
RulesOps == 3
StreakIngests == 2
StreakTicks == 1
DeliveryIngests == 2
DeliveryTicks == 1
MaxSettled == 3
UrlOps == 2
SizeIngests == 2
SizeTicks == 1
MaxNewKeys == 2
RegisterOps == 3
LimitOps == 7
LimitTicks == 2
SdkEnqueues == 3
SdkFlushes == 3
SdkCalls == 3
CallFlushes == 1
CapIngests == 52
CapTicks == 1

(* Program constants *)

T0 == 1762214400
MIN_TS == 1577836800
DAY == 86400
DEDUP_WINDOW == 3600
MAX_DATA_LEN == 16384
MAX_SESSION_LEN == 256
MAX_KIND_LEN == 64
HARD_BATCH_CAP == 500
MAX_RULES == 10
REGISTER_LIMIT == 5
REGISTER_WINDOW == 3600

\* The Node SDK: events per unit of a flush, and the most the queue takes
BATCH_SIZE == 500
QUEUE_MAX == 5000

Tenants == 1..NumTenants
Slots == 1..MaxInflight

PLAN_LIMITS ==
    [free |-> [eventsPerDay |-> 5000, maxBatchSize |-> 100, retentionDays |-> 7],
     pro  |-> [eventsPerDay |-> 100000, maxBatchSize |-> 500, retentionDays |-> 90]]

\* PLAN_LIMITS[(agentPlan?.plan) || "free"] || PLAN_LIMITS.free
LimitsOf(plan) ==
    IF plan \in DOMAIN PLAN_LIMITS THEN PLAN_LIMITS[plan] ELSE PLAN_LIMITS["free"]

----------------------------------------------------------------------------
(* JSON values *)

Chars(s) == [ty |-> "string", s |-> s]
NotAString == [ty |-> "number", s |-> <<>>]

\* The characters of [a-zA-Z0-9_]
KindChars ==
    {"a", "b", "c", "d", "e", "f", "g", "h", "i", "j", "k", "l", "m",
     "n", "o", "p", "q", "r", "s", "t", "u", "v", "w", "x", "y", "z",
     "A", "B", "C", "D", "E", "F", "G", "H", "I", "J", "K", "L", "M",
     "N", "O", "P", "Q", "R", "S", "T", "U", "V", "W", "X", "Y", "Z",
     "0", "1", "2", "3", "4", "5", "6", "7", "8", "9", "_"}

K_cost == <<"c", "o", "s", "t">>
K_cron == <<"c", "r", "o", "n">>
K_metric == <<"m", "e", "t", "r", "i", "c">>
K_mailbox == <<"m", "a", "i", "l", "b", "o", "x">>
K_session == <<"s", "e", "s", "s", "i", "o", "n">>
K_alert_fired == <<"a", "l", "e", "r", "t", "_", "f", "i", "r", "e", "d">>
K_dash == <<"a", "-", "b">>
K_empty == <<>>
K_long64 == [i \in 1..64 |-> "x"]
K_long65 == [i \in 1..65 |-> "x"]

\* typeof kind === "string" && /^[a-zA-Z0-9_]+$/.test(kind) && kind.length <= 64
isValidKind(kind) ==
    /\ kind.ty = "string"
    /\ Len(kind.s) >= 1
    /\ \A i \in 1..Len(kind.s) : kind.s[i] \in KindChars
    /\ Len(kind.s) <= MAX_KIND_LEN

\* typeof ts === "number" && Number.isFinite(ts) && ts >= min && ts <= now + 86400
isValidTs(ts, clock) ==
    /\ ts.ty = "number"
    /\ ts.v >= MIN_TS
    /\ ts.v <= clock + DAY

Num(v) == [ty |-> "number", v |-> v]
NotANumber == [ty |-> "string", v |-> 0]

\* A session key: absent, a string of a given length, or another JSON value.
NoSession == [ty |-> "undefined", len |-> 0, truthy |-> FALSE]
SessStr(n) == [ty |-> "string", len |-> n, truthy |-> n > 0]
SessZero == [ty |-> "number", len |-> 0, truthy |-> FALSE]
SessNum == [ty |-> "number", len |-> 0, truthy |-> TRUE]

\* e.session && (typeof e.session !== "string" || e.session.length > 256)
SessionRejected(session) ==
    session.truthy /\ (session.ty # "string" \/ session.len > MAX_SESSION_LEN)

\* e.session || null, as bound to session_key
SessionKeyOf(session) == IF session.truthy THEN session ELSE NoSession

\* A payload.  size is JSON.stringify(data).length; a numeric field that the
\* object lacks is -1; status "", job "" and rule_id 0 stand for an absent key.
\* cost_str (tokens_str) tells that cost_usd (tokens) is a JSON string, the
\* decimal digits of the number given, and not a JSON number.
Missing == -1
Obj(size, cost, tokens, status, rule) ==
    [ty |-> "object", size |-> size, cost_usd |-> cost, tokens |-> tokens,
     status |-> status, rule_id |-> rule, job |-> "", cost_str |-> FALSE,
     tokens_str |-> FALSE]
NoData == [Obj(0, Missing, Missing, "", 0) EXCEPT !.ty = "undefined"]
NullData == [Obj(4, Missing, Missing, "", 0) EXCEPT !.ty = "null"]
NumData == [Obj(1, Missing, Missing, "", 0) EXCEPT !.ty = "number"]
EmptyObj == Obj(2, Missing, Missing, "", 0)
\* An array payload: typeof [] === "object"
ArrData == [Obj(2, Missing, Missing, "", 0) EXCEPT !.ty = "array"]

\* e.data !== null && e.data !== undefined && typeof e.data !== "object"
DataNotObject(data) == data.ty \notin {"null", "undefined", "object", "array"}

\* e.data && JSON.stringify(e.data).length > 16384
DataTooLarge(data) == data.ty \in {"object", "array"} /\ data.size > MAX_DATA_LEN

\* COALESCE(json_extract(data, '$.x'), 0); SUM() skips a NULL
NumOrZero(v) == IF v = Missing THEN 0 ELSE v

Ev(kind, ts, session, data) ==
    [kind |-> kind, ts |-> ts, session |-> session, data |-> data]
Seg(e, n) == [e |-> e, n |-> n]

RECURSIVE BatchLen(_)
\* body.events.length
BatchLen(b) == IF b = <<>> THEN 0 ELSE Head(b).n + BatchLen(Tail(b))

----------------------------------------------------------------------------
(* The store *)

Row(a, kind, ts, session_key, data, n, by) ==
    [agent_id |-> a, kind |-> kind, ts |-> ts, session_key |-> session_key,
     data |-> data, n |-> n, by |-> by]

RECURSIVE RowCount(_)
\* COUNT(*) of a sequence of row groups
RowCount(rows) == IF rows = <<>> THEN 0 ELSE Head(rows).n + RowCount(Tail(rows))

\* SELECT COUNT(*) FROM events WHERE agent_id = ? AND ts >= ?
CountSince(a, since) ==
    RowCount(SelectSeq(events, LAMBDA row : row.agent_id = a /\ row.ts >= since))

\* date('now'): the UTC day number
DateOf(clock) == clock \div DAY

CostRow(a, date) ==
    IF \E c \in cost_daily : c.agent_id = a /\ c.date = date
    THEN CHOOSE c \in cost_daily : c.agent_id = a /\ c.date = date
    ELSE [agent_id |-> a, date |-> date, total_cost |-> 0, total_tokens |-> 0,
          event_count |-> 0]

\* A variant in which the upsert has not been applied when the handler goes on
UpsertCost_deferred(a, date, cost, tokens, count) == cost_daily

\* INSERT INTO cost_daily ... ON CONFLICT(agent_id, date) DO UPDATE SET ...
UpsertCost(a, date, cost, tokens, count) ==
    LET old == CostRow(a, date) IN
    (cost_daily \ {old}) \cup
        {[old EXCEPT !.total_cost = @ + cost, !.total_tokens = @ + tokens,
                     !.event_count = @ + count]}

----------------------------------------------------------------------------
(* POST /v1/ingest *)

\* The validation loop's verdict on one event: "", or the error returned.
EventError(e, clock) ==
    IF ~isValidKind(e.kind) THEN "Invalid event kind"
    ELSE IF ~isValidTs(e.ts, clock) THEN "Invalid timestamp"
    ELSE IF DataNotObject(e.data) THEN "Event data must be an object"
    ELSE IF DataTooLarge(e.data) THEN "Event data too large"
    ELSE IF SessionRejected(e.session) THEN "Session key too long"
    ELSE ""

RECURSIVE ValidationError(_, _)
\* for (const e of body.events): the first invalid event returns.
ValidationError(b, clock) ==
    IF b = <<>> THEN ""
    ELSE IF EventError(Head(b).e, clock) # "" THEN EventError(Head(b).e, clock)
    ELSE ValidationError(Tail(b), clock)

\* A variant that compares the count alone with the cap
OverDailyCap_countOnly(count, n, cap) == count > cap

\* if ((todayCount?.cnt || 0) + body.events.length > limits.eventsPerDay)
OverDailyCap(count, n, cap) == count + n > cap

\* A variant without the batch size of the plan
GateError_noPlanSize(a, b, clock) ==
    LET limits == LimitsOf(agents[a].plan) IN
    IF BatchLen(b) = 0 THEN "No events"
    ELSE IF BatchLen(b) > HARD_BATCH_CAP THEN "Max 500 events per batch"
    ELSE IF ValidationError(b, clock) # "" THEN ValidationError(b, clock)
    ELSE IF OverDailyCap(CountSince(a, clock - DAY), BatchLen(b), limits.eventsPerDay)
    THEN "Daily event limit reached"
    ELSE ""

\* The checks of the handler up to the daily count: "" to go on to the insert.
GateError(a, b, clock) ==
    LET limits == LimitsOf(agents[a].plan) IN
    IF BatchLen(b) = 0 THEN "No events"
    ELSE IF BatchLen(b) > HARD_BATCH_CAP THEN "Max 500 events per batch"
    ELSE IF ValidationError(b, clock) # "" THEN ValidationError(b, clock)
    ELSE IF BatchLen(b) > limits.maxBatchSize THEN "Batch too large"
    ELSE IF OverDailyCap(CountSince(a, clock - DAY), BatchLen(b), limits.eventsPerDay)
    THEN "Daily event limit reached"
    ELSE ""

\* The status each error is returned with
StatusOf(error) ==
    CASE error \in {"Max 500 events per batch", "Event data too large", "Batch too large"}
            -> 413
      [] error = "Daily event limit reached" -> 429
      [] OTHER -> 400

RECURSIVE Slice(_, _)
\* body.events.slice(0, k)
Slice(b, k) ==
    IF b = <<>> \/ k <= 0 THEN <<>>
    ELSE IF Head(b).n <= k THEN <<Head(b)>> \o Slice(Tail(b), k - Head(b).n)
    ELSE <<Seg(Head(b).e, k)>>

\* stmt.bind(agent.id, e.kind, e.ts, e.session || null, JSON.stringify(e.data))
InsertRows(a, b) ==
    [i \in 1..Len(b) |->
        Row(a, b[i].e.kind.s, b[i].e.ts.v, SessionKeyOf(b[i].e.session),
            b[i].e.data, b[i].n, "gateway")]

\* body.events.filter((e) => e.kind === "cost")
CostEvents(b) == SelectSeq(b, LAMBDA g : g.e.kind = Chars(K_cost))

\* A JavaScript value that is a number, or a string of len decimal digits
\* whose value is v ("053": v 53, len 3)
JsNum(v) == [str |-> FALSE, v |-> v, len |-> 0]
JsStr(v, len) == [str |-> TRUE, v |-> v, len |-> len]

RECURSIVE Digits(_)
\* String(v).length of a natural number
Digits(v) == IF v < 10 THEN 1 ELSE 1 + Digits(v \div 10)

RECURSIVE Pow10(_)
Pow10(k) == IF k = 0 THEN 1 ELSE 10 * Pow10(k - 1)

\* x || 0 of a field: a missing field, the number 0 and "" are falsy; every
\* other string, "0" included, is truthy and stays a string
OrZero(v, isStr) ==
    IF v = Missing THEN JsNum(0)
    ELSE IF isStr THEN JsStr(v, Digits(v))
    ELSE JsNum(v)

\* total += x: the sum of two numbers; with a string on either side, the
\* concatenation of the two as strings
PlusAssign(total, x) ==
    IF ~total.str /\ ~x.str THEN JsNum(total.v + x.v)
    ELSE LET l == IF total.str THEN total ELSE JsStr(total.v, Digits(total.v))
             r == IF x.str THEN x ELSE JsStr(x.v, Digits(x.v))
         IN JsStr(l.v * Pow10(r.len) + r.v, l.len + r.len)

RECURSIVE PlusTimes(_, _, _)
\* total += x for each of n consecutive events
PlusTimes(total, x, n) ==
    IF n = 0 THEN total
    ELSE IF ~total.str /\ ~x.str THEN JsNum(total.v + n * x.v)
    ELSE PlusTimes(PlusAssign(total, x), x, n - 1)

RECURSIVE TotalCost(_, _)
\* for (const e of costEvents) totalCost += (e.data.cost_usd as number) || 0
TotalCost(total, b) ==
    IF b = <<>> THEN total
    ELSE TotalCost(PlusTimes(total, OrZero(Head(b).e.data.cost_usd, Head(b).e.data.cost_str),
                             Head(b).n),
                   Tail(b))

RECURSIVE TotalTokens(_, _)
\* for (const e of costEvents) totalTokens += (e.data.tokens as number) || 0
TotalTokens(total, b) ==
    IF b = <<>> THEN total
    ELSE TotalTokens(PlusTimes(total, OrZero(Head(b).e.data.tokens, Head(b).e.data.tokens_str),
                               Head(b).n),
                     Tail(b))

\* The value bound to a REAL or INTEGER column: a number as it is, a string
\* of digits converted by the column's affinity
Bound(x) == x.v

SumCost(b) == Bound(TotalCost(JsNum(0), b))

SumTokens(b) == Bound(TotalTokens(JsNum(0), b))

\* JSON.stringify(undefined) is undefined, which D1 refuses to bind (and the
\* column is NOT NULL): the statement fails and nothing of the batch is written.
BindFails(b) == \E i \in 1..Len(b) : b[i].e.data.ty = "undefined"

\* e.data.cost_usd on a null payload: TypeError, after the batch was written.
AggregateThrows(b) ==
    \E i \in 1..Len(b) : b[i].e.kind = Chars(K_cost) /\ b[i].e.data.ty = "null"

\* events.filter(e => e.kind === "cron")
HasCron(b) == \E i \in 1..Len(b) : b[i].e.kind = Chars(K_cron)

\* events.filter(e => e.kind === "cron" && (e.data as any)?.status === "fail")
HasCronFail(b) ==
    \E i \in 1..Len(b) :
        /\ b[i].e.kind = Chars(K_cron)
        /\ b[i].e.data.ty = "object"
        /\ b[i].e.data.status = "fail"

----------------------------------------------------------------------------
(* Alert rules: POST /v1/alerts, PATCH and DELETE /v1/alerts/:id *)

\* A webhook_url of a request body: absent, null, "" or a string that
\* new URL() parses (protocol, hostname as its dot-separated labels) or not.
NoUrl == [ty |-> "undefined", empty |-> TRUE, parses |-> FALSE, protocol |-> "",
          host |-> <<>>]
NullUrl == [NoUrl EXCEPT !.ty = "null"]
EmptyUrl == [NoUrl EXCEPT !.ty = "string"]
BadUrl == [NoUrl EXCEPT !.ty = "string", !.empty = FALSE]
Url(protocol, host) ==
    [ty |-> "string", empty |-> FALSE, parses |-> TRUE, protocol |-> protocol,
     host |-> host]

UrlTruthy(url) == url.ty = "string" /\ ~url.empty

\* 1[6-9] | 2[0-9] | 3[01]
Private172 ==
    {"16", "17", "18", "19", "20", "21", "22", "23", "24", "25", "26", "27",
     "28", "29", "30", "31"}

\* /^(10\.|172\.(1[6-9]|2[0-9]|3[01])\.|192\.168\.|127\.|0\.|169\.254\.)/.test(host)
PrivatePrefix(host) ==
    \/ Len(host) >= 2 /\ host[1] \in {"10", "127", "0"}
    \/ Len(host) >= 3 /\ host[1] = "172" /\ host[2] \in Private172
    \/ Len(host) >= 3 /\ host[1] = "192" /\ host[2] = "168"
    \/ Len(host) >= 3 /\ host[1] = "169" /\ host[2] = "254"

isValidWebhookUrl(url) ==
    /\ url.parses
    /\ url.protocol = "https:"
    /\ url.host # <<"localhost">>
    /\ ~(Len(url.host) >= 2 /\ url.host[Len(url.host)] = "local")
    /\ url.host # <<"[::1]">>
    /\ ~PrivatePrefix(url.host)
    /\ url.host # <<"169", "254", "169", "254">>
    /\ url.host # <<"metadata", "google", "internal">>

validOps == {"gt", "gte", "lt", "lte", "eq"}
validMetrics ==
    {"daily_cost", "daily_tokens", "daily_events", "cron_fail_count",
     "cron_fail_streak"}

\* The body of POST /v1/alerts.  rule_name, metric, op and channel are "" when
\* the body lacks them; threshold is Missing when it is undefined.
RuleBody(name, metric, op, threshold, channel, url) ==
    [rule_name |-> name, metric |-> metric, op |-> op, threshold |-> threshold,
     channel |-> channel, webhook_url |-> url]

\* body.channel || "webhook"
ChannelOf(body) == IF body.channel = "" THEN "webhook" ELSE body.channel

\* if (ch === "webhook") { url required; isValidWebhookUrl(url) }
CreateUrlRejected(body) ==
    /\ ChannelOf(body) = "webhook"
    /\ (~UrlTruthy(body.webhook_url) \/ ~isValidWebhookUrl(body.webhook_url))

RulesOf(a) == SelectSeq(alerts, LAMBDA rule : rule.agent_id = a)

\* The checks of POST /v1/alerts: 0 to go on to the insert.
CreateStatus(a, body) ==
    IF body.rule_name = "" \/ (body.metric = "" /\ body.op = "" /\ body.threshold = Missing)
    THEN 400
    ELSE IF body.metric = "" \/ body.op = "" \/ body.threshold = Missing THEN 400
    ELSE IF body.op \notin validOps THEN 400
    ELSE IF body.metric \notin validMetrics THEN 400
    ELSE IF CreateUrlRejected(body) THEN 400
    ELSE IF Len(RulesOf(a)) >= MAX_RULES THEN 429
    ELSE 0

\* INSERT INTO alerts (agent_id, rule_name, condition, channel, webhook_url)
NewRule(id, a, body) ==
    [id |-> id, agent_id |-> a, rule_name |-> body.rule_name,
     metric |-> body.metric, op |-> body.op, threshold |-> body.threshold,
     channel |-> ChannelOf(body),
     webhook_url |-> IF UrlTruthy(body.webhook_url) THEN body.webhook_url ELSE NullUrl,
     enabled |-> TRUE]

\* The body of PATCH /v1/alerts/:id.  enabled is "unset", "true" or "false";
\* webhook_url is NoUrl and rule_name is Unset when the body lacks them.
Unset == "(undefined)"
PatchBody(enabled, url, name) ==
    [enabled |-> enabled, webhook_url |-> url, rule_name |-> name]

\* A variant that stores whatever URL the body carries
PatchUrlRejected_never(body) == FALSE

\* if (body.webhook_url && !isValidWebhookUrl(body.webhook_url)) return 400
PatchUrlRejected(body) ==
    /\ body.webhook_url.ty # "undefined"
    /\ UrlTruthy(body.webhook_url)
    /\ ~isValidWebhookUrl(body.webhook_url)

PatchStatus(body) ==
    IF PatchUrlRejected(body) THEN 400
    ELSE IF body.enabled = "unset" /\ body.webhook_url.ty = "undefined"
            /\ body.rule_name = Unset THEN 400
    ELSE 200

\* A variant of the WHERE clause without its tenant filter
RuleMatches_anyTenant(rule, id, a) == rule.id = id

\* WHERE id = ? AND agent_id = ?
RuleMatches(rule, id, a) == rule.id = id /\ rule.agent_id = a

\* UPDATE alerts SET ... WHERE id = ? AND agent_id = ?
Patched(rule, body) ==
    [rule EXCEPT
        !.enabled = IF body.enabled = "unset" THEN @ ELSE body.enabled = "true",
        !.webhook_url = IF body.webhook_url.ty = "undefined" THEN @ ELSE body.webhook_url,
        !.rule_name = IF body.rule_name = Unset THEN @ ELSE body.rule_name]

----------------------------------------------------------------------------
(* evaluateAlerts *)

\* A variant that loads the disabled rules too
EnabledRules_all(a) == SelectSeq(alerts, LAMBDA rule : rule.agent_id = a)

\* SELECT ... FROM alerts WHERE agent_id = ? AND enabled = 1
EnabledRules(a) == SelectSeq(alerts, LAMBDA rule : rule.agent_id = a /\ rule.enabled)

\* json_extract(data, '$.status') = 'fail'
StatusIsFail(row) == row.data.ty = "object" /\ row.data.status = "fail"

\* SELECT COUNT(*) FROM events WHERE agent_id = ? AND kind = 'cron'
\*   AND json_extract(data, '$.status') = 'fail' AND ts >= ?
CronFailCount(a, since) ==
    RowCount(SelectSeq(events, LAMBDA row :
        row.agent_id = a /\ row.kind = K_cron /\ StatusIsFail(row) /\ row.ts >= since))

CronIdx(a) == {i \in 1..Len(events) : events[i].agent_id = a /\ events[i].kind = K_cron}

\* A variant that takes the rows in ascending timestamp order
Latest_oldestFirst(idx) ==
    CHOOSE i \in idx : \A j \in idx :
        events[j].ts > events[i].ts \/ (events[j].ts = events[i].ts /\ j >= i)

\* The first row group of ORDER BY ts DESC among those of idx (of equal ts,
\* the later rowid first).
Latest(idx) ==
    CHOOSE i \in idx : \A j \in idx :
        events[j].ts < events[i].ts \/ (events[j].ts = events[i].ts /\ j <= i)

RECURSIVE Streak_countsAll(_, _)
\* A variant that counts every failure among the rows and does not stop at
\* the first row that is not one
Streak_countsAll(idx, limit) ==
    IF idx = {} \/ limit <= 0 THEN 0
    ELSE LET i == Latest(idx)
             k == IF events[i].n >= limit THEN limit ELSE events[i].n
         IN (IF StatusIsFail(events[i]) THEN k ELSE 0)
            + Streak_countsAll(idx \ {i}, limit - k)

RECURSIVE Streak(_, _)
\* ORDER BY ts DESC LIMIT 10, then: status === "fail" ? streak++ : break
Streak(idx, limit) ==
    IF idx = {} \/ limit <= 0 THEN 0
    ELSE LET i == Latest(idx) IN
         IF ~StatusIsFail(events[i]) THEN 0
         ELSE IF events[i].n >= limit THEN limit
         ELSE events[i].n + Streak(idx \ {i}, limit - events[i].n)

CronFailStreak(a) == Streak(CronIdx(a), 10)

\* The switch on cond.metric: whether the rule is skipped (continue), and
\* currentValue otherwise.
MetricOf(rule, a, cron, cronFail, clock) ==
    CASE rule.metric = "daily_cost" ->
            [skip |-> FALSE, val |-> CostRow(a, DateOf(clock)).total_cost]
      [] rule.metric = "daily_tokens" ->
            [skip |-> FALSE, val |-> CostRow(a, DateOf(clock)).total_tokens]
      [] rule.metric = "daily_events" ->
            [skip |-> FALSE, val |-> CountSince(a, clock - DAY)]
      [] rule.metric = "cron_fail_count" ->
            [skip |-> ~cronFail, val |-> CronFailCount(a, clock - DAY)]
      [] rule.metric = "cron_fail_streak" ->
            [skip |-> ~cron, val |-> CronFailStreak(a)]
      [] OTHER -> [skip |-> TRUE, val |-> 0]

\* The switch on cond.op
Triggered(op, value, threshold) ==
    CASE op = "gt" -> value > threshold
      [] op = "gte" -> value >= threshold
      [] op = "lt" -> value < threshold
      [] op = "lte" -> value <= threshold
      [] op = "eq" -> value = threshold
      [] OTHER -> FALSE

\* WHERE agent_id = ? AND kind = 'alert_fired'
\*   AND json_extract(data, '$.rule_id') = ? AND ts >= ?
IsRecentFire(row, a, rule_id, since) ==
    /\ row.agent_id = a
    /\ row.kind = K_alert_fired
    /\ row.data.ty = "object"
    /\ row.data.rule_id = rule_id
    /\ row.ts >= since

\* A variant without the cooldown
recentFire_never(a, rule_id, clock) == FALSE

recentFire(a, rule_id, clock) ==
    \E i \in 1..Len(events) : IsRecentFire(events[i], a, rule_id, clock - DEDUP_WINDOW)

\* alertData, as the row INSERT INTO events (... 'alert_fired' ...) writes it
FiredRow(a, rule, ts) ==
    Row(a, K_alert_fired, ts, NoSession, Obj(2, Missing, Missing, "", rule.id), 1,
        "evaluator")

\* A delivery attempt: the fetch of line 272 or the sendAlertEmail of line 297,
\* made at clock for the firing recorded with timestamp fired
\* outcome is what has become of the attempt: "pending" until its promise
\* settles.
Delivery(rule, a, channel, clock, fired) ==
    [rule_id |-> rule.id, agent_id |-> a, channel |-> channel,
     url |-> rule.webhook_url, at |-> clock, fired |-> fired, outcome |-> "pending"]

\* The task a request starts by ctx_evaluateAlerts(env, agent.id, body.events)
\* fate is what becomes of the task: it "completes", it "throws" (a store
\* error at some step) or it "hangs" (the runtime drops it, it never completes).
Fates == {"completes", "throws", "hangs"}
\* costs and day record the batch the task was started for: the number of
\* its cost events and the server date at the start.
IdleEval ==
    [pc |-> "idle", agent |-> 0, cron |-> FALSE, cronFail |-> FALSE,
     rules |-> <<>>, i |-> 0, val |-> 0, ts |-> 0, fate |-> "completes",
     costs |-> 0, day |-> 0]
NewEval(a, b, fate, clock) ==
    [IdleEval EXCEPT !.pc = "load", !.agent = a, !.cron = HasCron(b),
                     !.cronFail = HasCronFail(b), !.fate = fate,
                     !.costs = BatchLen(CostEvents(b)), !.day = DateOf(clock)]

\* continue: the next rule of the loop, or the end of the task
NextRule(task) ==
    IF task.i < Len(task.rules)
    THEN [task EXCEPT !.pc = "metric", !.i = @ + 1, !.val = 0, !.ts = 0]
    ELSE IdleEval

\* evaluateAlerts(...).catch(() => {}): what of the task's fate reaches the
\* request handler ("none": nothing, the handler does not wait for it).
\* A variant that awaits the task and lets its outcome through
ctx_evaluateAlerts_awaited(fate) == fate

ctx_evaluateAlerts(fate) == "none"

----------------------------------------------------------------------------
(* Request bodies, the agents table and the register rate limit *)

\* A request body as it arrives: "json" is a body that parses to an object,
\* "null" one that parses to a falsy value (the JSON text null), "malformed"
\* one that JSON.parse throws on (the empty text included), "oversized" one of
\* more than MAX_BODY_SIZE bytes, "none" a request without a body, and
\* "declared" a body whose Content-Length header exceeds MAX_BODY_SIZE.
RawBodies == {"json", "null", "malformed", "oversized", "none", "declared"}

\* parseInt(req.headers.get("Content-Length") || "0") > MAX_BODY_SIZE
checkBodySize(raw) == raw = "declared"

\* readBody: null without a reader or past MAX_BODY_SIZE, else
\* JSON.parse(...) of the text, which throws on a text that is not JSON
readBody(raw) ==
    CASE raw \in {"none", "oversized", "declared"} -> "null"
      [] raw = "malformed" -> "throws"
      [] raw = "null" -> "null"
      [] OTHER -> "value"

\* The body of POST /v1/register: name is a string or undefined; email is
\* undefined or a string, ok telling whether it matches
\* /^[^\s@]+@[^\s@]+\.[^\s@]+$/.
NoName == [ty |-> "undefined", s |-> <<>>]
NoEmail == [ty |-> "undefined", s |-> "", ok |-> FALSE]
Email(s, ok) == [ty |-> "string", s |-> s, ok |-> ok]
RegBody(raw, name, email) == [raw |-> raw, name |-> name, email |-> email]
NoReg == RegBody("none", NoName, NoEmail)

\* crypto.subtle.digest("SHA-256", ...) of a raw key, in hex: a function of
\* the key that differs from it and is taken to be free of collisions
sha256(raw) == <<"sha256", raw>>

\* The raw keys: tenant t of the initial store holds key t;
\* "ap_" + crypto.randomUUID() draws any key.
RawKeys == 1..(NumTenants + MaxNewKeys)

\* A row of the table agents
Account(t, email, plan) ==
    [name |-> <<"t", ToString(t)>>, api_key_hash |-> sha256(t), email |-> email,
     plan |-> plan]

\* body.email || null ("" stands for NULL)
EmailOf(body) == IF body.email.ty = "string" THEN body.email.s ELSE ""

\* The constraints of the table agents in schema.sql: the key column
\* (api_key there, api_key_hash in the statements of the Worker) is UNIQUE,
\* and so is email, where NULLs do not conflict; name is NOT NULL only.
UniqueViolated(name, hash, email) ==
    \E i \in 1..Len(agents) :
        \/ agents[i].api_key_hash = hash
        \/ email # "" /\ agents[i].email = email

\* The queue of the Node SDK holds events in the order of enqueue.  Events
\* are numbered as they are queued, and a stretch of consecutive numbers is
\* kept as one run (lo..hi) when they are of one kind.
Run(lo, hi, kind) == [lo |-> lo, hi |-> hi, kind |-> kind]
RunLen(r) == r.hi - r.lo + 1
RECURSIVE QueueLen(_)
QueueLen(q) == IF q = <<>> THEN 0 ELSE RunLen(Head(q)) + QueueLen(Tail(q))

\* q.slice(0, n): the first n events of q
RECURSIVE slice(_, _)
slice(q, n) ==
    IF q = <<>> \/ n <= 0 THEN <<>>
    ELSE IF RunLen(Head(q)) <= n
         THEN <<Head(q)>> \o slice(Tail(q), n - RunLen(Head(q)))
         ELSE <<Run(Head(q).lo, Head(q).lo + n - 1, Head(q).kind)>>

\* What q.splice(0, n) leaves in q: everything after the first n events
RECURSIVE spliced(_, _)
spliced(q, n) ==
    IF q = <<>> \/ n <= 0 THEN q
    ELSE IF RunLen(Head(q)) <= n
         THEN spliced(Tail(q), n - RunLen(Head(q)))
         ELSE <<Run(Head(q).lo + n, Head(q).hi, Head(q).kind)>> \o Tail(q)

\* new AgentPulse(opts): a client that has queued nothing; it is enabled
\* unless opts.enabled is false or there is no API key.  Beside the queue
\* and the open sessions it has the batches of the flushes that wait for
\* their answer (flights) and the number of events queued so far (seq);
\* sent and lost record, for the properties, the events of the batches that
\* were accepted and of those that were neither accepted nor put back.
AgentPulse(apiKey, enabled) ==
    [enabled |-> (enabled # "false") /\ apiKey # "",
     queue |-> <<>>, activeSessions |-> {}, seq |-> 0,
     flights |-> <<>>, sent |-> <<>>, lost |-> <<>>]

\* The client of the test script: init({ apiKey: 'ap_test123', ... })
NewSdk == AgentPulse("ap_test123", "undefined")

\* The map registerAttempts is empty when the Worker starts.  Beside count
\* and resetAt an entry records, for the properties, the instants at which
\* requests of the address got past the limit (log).
NoAttempts == [ip \in {} |-> [count |-> 0, resetAt |-> 0, log |-> <<>>]]

\* A variant that lets one request more through
RateLimited_offByOne(ip, clock) ==
    /\ ip \in DOMAIN registerAttempts
    /\ registerAttempts[ip].resetAt > clock
    /\ registerAttempts[ip].count > REGISTER_LIMIT

\* attempt && attempt.resetAt > now && attempt.count >= REGISTER_LIMIT
RateLimited(ip, clock) ==
    /\ ip \in DOMAIN registerAttempts
    /\ registerAttempts[ip].resetAt > clock
    /\ registerAttempts[ip].count >= REGISTER_LIMIT

\* if (!attempt || attempt.resetAt <= now) set(ip, { count: 1, resetAt: now + 3600_000 })
\* else attempt.count++
Attempted(ip, clock) ==
    LET log == IF ip \in DOMAIN registerAttempts THEN registerAttempts[ip].log ELSE <<>> IN
    [i \in DOMAIN registerAttempts \cup {ip} |->
        IF i # ip THEN registerAttempts[i]
        ELSE IF ip \notin DOMAIN registerAttempts \/ registerAttempts[ip].resetAt <= clock
        THEN [count |-> 1, resetAt |-> clock + REGISTER_WINDOW, log |-> Append(log, clock)]
        ELSE [count |-> registerAttempts[ip].count + 1,
              resetAt |-> registerAttempts[ip].resetAt, log |-> Append(log, clock)]]

----------------------------------------------------------------------------
(* The handlers, one action per step between two awaits *)

NoBody == RuleBody("", "", "", Missing, "", NoUrl)
IdleReq == [pc |-> "idle", agent |-> 0, batch |-> <<>>, body |-> NoBody, reg |-> NoReg]
NoResp == [op |-> "none", agent |-> 0, id |-> 0, status |-> 0, accepted |-> 0,
           error |-> ""]
Reply(op, a, id, status, accepted) ==
    [op |-> op, agent |-> a, id |-> id, status |-> status, accepted |-> accepted,
     error |-> ""]
Refusal(op, a, status, error) ==
    [op |-> op, agent |-> a, id |-> 0, status |-> status, accepted |-> 0,
     error |-> error]

SlotFree(r) == reqs[r].pc = "idle" /\ evals[r].pc = "idle"

\* POST /v1/ingest with tenant a's credential: await readBody(req)
IngestReceive(r, a, b) ==
    /\ SlotFree(r)
    /\ \A q \in Slots : q < r => ~SlotFree(q)
    /\ budget.ingests > 0
    /\ budget' = [budget EXCEPT !.ingests = @ - 1]
    /\ reqs' = [reqs EXCEPT ![r] = [IdleReq EXCEPT !.pc = "validate", !.agent = a, !.batch = b]]
    /\ UNCHANGED <<now, agents, registerAttempts, sdk, events, cost_daily, alerts, nextAlertId, heartbeats, reaper,
                   evals, resp, deliveries>>

\* The batch is validated, the plan looked up, the events of the last 24
\* hours counted and compared with the plan's daily cap.
IngestGate(r) ==
    LET a == reqs[r].agent
        b == reqs[r].batch
    IN /\ reqs[r].pc = "validate"
       /\ IF GateError(a, b, now) # ""
          THEN /\ resp' = Refusal("ingest", a, StatusOf(GateError(a, b, now)),
                                  GateError(a, b, now))
               /\ reqs' = [reqs EXCEPT ![r] = IdleReq]
          ELSE /\ reqs' = [reqs EXCEPT ![r].pc = "insert"]
               /\ UNCHANGED resp
       /\ UNCHANGED <<now, agents, registerAttempts, sdk, events, cost_daily, alerts, nextAlertId, heartbeats, reaper,
                      evals, deliveries, budget>>

\* ctx_evaluateAlerts(env, agent.id, body.events); return json({ accepted }, 200)
Respond(r, fate) ==
    LET a == reqs[r].agent
        b == reqs[r].batch
        got == ctx_evaluateAlerts(fate)
    IN /\ evals' = [evals EXCEPT ![r] = NewEval(a, b, fate, now)]
       /\ reqs' = [reqs EXCEPT ![r] = IdleReq]
       /\ resp' = CASE got = "throws" -> Refusal("ingest", a, 500, "Internal")
                    [] got = "hangs" -> Refusal("ingest", a, 0, "No response")
                    [] OTHER -> Reply("ingest", a, 0, 200, BatchLen(b))

\* A variant in which a request that fails still starts the evaluation
Crash_evaluates(r) ==
    /\ reqs' = [reqs EXCEPT ![r] = IdleReq]
    /\ resp' = Refusal("ingest", reqs[r].agent, 500, "Internal")
    /\ evals' = [evals EXCEPT ![r] = NewEval(reqs[r].agent, reqs[r].batch, "completes", now)]

\* An exception leaves the handler: the Worker answers 500.
Crash(r) ==
    /\ reqs' = [reqs EXCEPT ![r] = IdleReq]
    /\ resp' = Refusal("ingest", reqs[r].agent, 500, "Internal")
    /\ UNCHANGED evals

\* await env.DB.batch(batch), then the cost filter and its sums
IngestInsert(r, fate) ==
    LET a == reqs[r].agent
        b == reqs[r].batch
        limits == LimitsOf(agents[a].plan)
    IN /\ reqs[r].pc = "insert"
       /\ IF BindFails(b)
          THEN Crash(r) /\ UNCHANGED events
          ELSE /\ events' = events \o InsertRows(a, Slice(b, limits.maxBatchSize))
               /\ IF CostEvents(b) = <<>> THEN Respond(r, fate)
                  ELSE IF AggregateThrows(b) THEN Crash(r)
                  ELSE /\ reqs' = [reqs EXCEPT ![r].pc = "aggregate"]
                       /\ UNCHANGED <<evals, resp>>
       /\ UNCHANGED <<now, agents, registerAttempts, sdk, cost_daily, alerts, nextAlertId, heartbeats, reaper,
                      deliveries, budget>>

\* await the cost_daily upsert, then start the evaluation and answer
IngestAggregate(r, fate) ==
    LET a == reqs[r].agent
        costEvents == CostEvents(reqs[r].batch)
    IN /\ reqs[r].pc = "aggregate"
       /\ cost_daily' = UpsertCost(a, DateOf(now), SumCost(costEvents),
                                   SumTokens(costEvents), BatchLen(costEvents))
       /\ Respond(r, fate)
       /\ UNCHANGED <<now, agents, registerAttempts, sdk, events, alerts, nextAlertId, heartbeats, reaper,
                      deliveries, budget>>

----------------------------------------------------------------------------
(* The steps of a detached evaluateAlerts task *)

EvalFrame == <<now, agents, registerAttempts, sdk, cost_daily, alerts, nextAlertId, heartbeats, reaper, reqs,
               resp, budget>>

\* const rules = await ...all(); if (!rules.results.length) return
EvalLoad(e) ==
    /\ evals[e].pc = "load"
    /\ evals' = [evals EXCEPT ![e] =
                    NextRule([evals[e] EXCEPT !.rules = EnabledRules(evals[e].agent),
                                              !.i = 0])]
    /\ UNCHANGED <<events, deliveries>>
    /\ UNCHANGED EvalFrame

\* the metric of rule i and its comparison with the threshold
EvalMetric(e) ==
    LET task == evals[e]
        rule == task.rules[task.i]
        m == MetricOf(rule, task.agent, task.cron, task.cronFail, now)
    IN /\ task.pc = "metric"
       /\ evals' = [evals EXCEPT ![e] =
                       IF ~m.skip /\ Triggered(rule.op, m.val, rule.threshold)
                       THEN [task EXCEPT !.pc = "dedup", !.val = m.val]
                       ELSE NextRule(task)]
       /\ UNCHANGED <<events, deliveries>>
       /\ UNCHANGED EvalFrame

\* const recentFire = await ...first(); if (recentFire) continue;
\* the alert_fired row is then bound with Date.now() / 1000
EvalDedup(e) ==
    LET task == evals[e]
        rule == task.rules[task.i]
    IN /\ task.pc = "dedup"
       /\ evals' = [evals EXCEPT ![e] =
                       IF recentFire(task.agent, rule.id, now) THEN NextRule(task)
                       ELSE [task EXCEPT !.pc = "fire", !.ts = now]]
       /\ UNCHANGED <<events, deliveries>>
       /\ UNCHANGED EvalFrame

\* A variant that makes the delivery and writes no alert_fired row
EvalFire_unrecorded(e) ==
    LET task == evals[e]
        rule == task.rules[task.i]
    IN /\ task.pc = "fire"
       /\ deliveries' = Append(deliveries, Delivery(rule, task.agent, rule.channel, now, task.ts))
       /\ evals' = [evals EXCEPT ![e] = NextRule(task)]
       /\ UNCHANGED events
       /\ UNCHANGED EvalFrame

\* await INSERT INTO events (... 'alert_fired' ...), then the delivery
EvalFire(e) ==
    LET task == evals[e]
        rule == task.rules[task.i]
    IN /\ task.pc = "fire"
       /\ events' = Append(events, FiredRow(task.agent, rule, task.ts))
       /\ IF rule.channel = "webhook" /\ UrlTruthy(rule.webhook_url)
          THEN /\ deliveries' = Append(deliveries, Delivery(rule, task.agent, "webhook", now, task.ts))
               /\ evals' = [evals EXCEPT ![e] = NextRule(task)]
          ELSE IF rule.channel = "email"
          THEN /\ evals' = [evals EXCEPT ![e].pc = "email"]
               /\ UNCHANGED deliveries
          ELSE /\ evals' = [evals EXCEPT ![e] = NextRule(task)]
               /\ UNCHANGED deliveries
       /\ UNCHANGED EvalFrame

\* const agent = await ...first(); if (agent?.email) sendAlertEmail(...)
EvalEmail(e) ==
    LET task == evals[e]
        rule == task.rules[task.i]
    IN /\ task.pc = "email"
       /\ deliveries' = IF agents[task.agent].email # ""
                        THEN Append(deliveries, Delivery(rule, task.agent, "email", now, task.ts))
                        ELSE deliveries
       /\ evals' = [evals EXCEPT ![e] = NextRule(task)]
       /\ UNCHANGED events
       /\ UNCHANGED EvalFrame

\* The promise of a delivery settles. A webhook fetch resolves or rejects,
\* and .catch(() => {}) drops the rejection; sendAlertEmail returns at once
\* without a RESEND_API_KEY, and else its fetch resolves or throws into the
\* catch block that logs the error. No branch retries or writes to the store.
Outcomes(channel) ==
    IF channel = "email" THEN {"delivered", "failed", "skipped"}
    ELSE {"delivered", "failed"}
Settle(k, outcome) ==
    /\ k \in 1..Len(deliveries)
    /\ deliveries[k].outcome = "pending"
    /\ outcome \in Outcomes(deliveries[k].channel)
    /\ deliveries' = [deliveries EXCEPT ![k].outcome = outcome]
    /\ UNCHANGED <<now, agents, registerAttempts, sdk, events, cost_daily, alerts, nextAlertId, heartbeats, reaper,
                   reqs, evals, resp, budget>>

\* A statement of the task throws: the promise rejects, .catch(() => {}) drops it.
EvalThrow(e) ==
    /\ evals[e].pc # "idle"
    /\ evals[e].fate = "throws"
    /\ evals' = [evals EXCEPT ![e] = IdleEval]
    /\ UNCHANGED <<events, deliveries>>
    /\ UNCHANGED EvalFrame

\* The runtime drops the task after the response: it never completes.
EvalDrop(e) ==
    /\ evals[e].pc # "idle"
    /\ evals[e].fate = "hangs"
    /\ evals' = [evals EXCEPT ![e] = IdleEval]
    /\ UNCHANGED <<events, deliveries>>
    /\ UNCHANGED EvalFrame

----------------------------------------------------------------------------
(* The other handlers *)

RuleFrame == <<now, agents, registerAttempts, sdk, events, cost_daily, heartbeats, reaper, reqs, evals, deliveries>>

\* POST /v1/alerts, with no other request between its awaits
CreateAlert(a, body) ==
    /\ budget.ops > 0
    /\ budget' = [budget EXCEPT !.ops = @ - 1]
    /\ IF CreateStatus(a, body) # 0
       THEN /\ resp' = Reply("createAlert", a, 0, CreateStatus(a, body), 0)
            /\ UNCHANGED <<alerts, nextAlertId>>
       ELSE /\ alerts' = Append(alerts, NewRule(nextAlertId, a, body))
            /\ nextAlertId' = nextAlertId + 1
            /\ resp' = Reply("createAlert", a, nextAlertId, 201, 0)
    /\ UNCHANGED RuleFrame

\* POST /v1/alerts, step by step.  await readBody(req):
CreateReceive(r, a, body) ==
    /\ SlotFree(r)
    /\ \A q \in Slots : q < r => ~SlotFree(q)
    /\ budget.ops > 0
    /\ budget' = [budget EXCEPT !.ops = @ - 1]
    /\ reqs' = [reqs EXCEPT ![r] = [IdleReq EXCEPT !.pc = "check", !.agent = a,
                                                   !.body = body]]
    /\ UNCHANGED <<now, agents, registerAttempts, sdk, events, cost_daily, alerts, nextAlertId, heartbeats,
                   reaper, evals, resp, deliveries>>

\* the checks of the body, then await the count of the tenant's rules
CreateCheck(r) ==
    LET a == reqs[r].agent
        body == reqs[r].body
    IN /\ reqs[r].pc = "check"
       /\ IF CreateStatus(a, body) # 0
          THEN /\ resp' = Reply("createAlert", a, 0, CreateStatus(a, body), 0)
               /\ reqs' = [reqs EXCEPT ![r] = IdleReq]
          ELSE /\ reqs' = [reqs EXCEPT ![r].pc = "store"]
               /\ UNCHANGED resp
       /\ UNCHANGED <<now, agents, registerAttempts, sdk, events, cost_daily, alerts, nextAlertId, heartbeats,
                      reaper, evals, deliveries, budget>>

\* await the INSERT INTO alerts, then 201
CreateStore(r) ==
    /\ reqs[r].pc = "store"
    /\ alerts' = Append(alerts, NewRule(nextAlertId, reqs[r].agent, reqs[r].body))
    /\ nextAlertId' = nextAlertId + 1
    /\ resp' = Reply("createAlert", reqs[r].agent, nextAlertId, 201, 0)
    /\ reqs' = [reqs EXCEPT ![r] = IdleReq]
    /\ UNCHANGED <<now, agents, registerAttempts, sdk, events, cost_daily, heartbeats, reaper, evals,
                   deliveries, budget>>

\* PATCH /v1/alerts/:id
PatchAlert(a, id, body) ==
    /\ budget.ops > 0
    /\ budget' = [budget EXCEPT !.ops = @ - 1]
    /\ resp' = Reply("patchAlert", a, id, PatchStatus(body), 0)
    /\ alerts' = IF PatchStatus(body) # 200 THEN alerts
                 ELSE [i \in 1..Len(alerts) |->
                          IF RuleMatches(alerts[i], id, a) THEN Patched(alerts[i], body)
                          ELSE alerts[i]]
    /\ UNCHANGED nextAlertId
    /\ UNCHANGED RuleFrame

\* DELETE /v1/alerts/:id
DeleteAlert(a, id) ==
    LET kept == SelectSeq(alerts, LAMBDA rule : ~RuleMatches(rule, id, a)) IN
    /\ budget.ops > 0
    /\ budget' = [budget EXCEPT !.ops = @ - 1]
    /\ alerts' = kept
    /\ resp' = Reply("deleteAlert", a, id,
                     IF Len(kept) = Len(alerts) THEN 404 ELSE 200, 0)
    /\ UNCHANGED nextAlertId
    /\ UNCHANGED RuleFrame

\* POST /v1/heartbeat
Heartbeat(a) ==
    /\ budget.ops > 0
    /\ budget' = [budget EXCEPT !.ops = @ - 1]
    /\ heartbeats' = [heartbeats EXCEPT ![a] = now]
    /\ resp' = Reply("heartbeat", a, 0, 200, 0)
    /\ UNCHANGED <<now, agents, registerAttempts, sdk, events, cost_daily, alerts, nextAlertId, reaper, reqs, evals,
                   deliveries>>

\* An exception that leaves the fetch handler: no branch of it builds a
\* response, and the runtime answers 500 with a body that is not the JSON of
\* json(...).
Uncaught(op, a) == Refusal(op, a, 500, "Internal")

\* The requests of the authenticated endpoints whose body readBody does not
\* turn into an object: the handler returns, or the exception of JSON.parse
\* leaves it, before it reads or writes the store.
NoBodyStatus(op) == IF op = "ingest" THEN 413 ELSE 400
NoBodyError(op) ==
    CASE op = "ingest" -> "Invalid or oversized request body (max 256KB)"
      [] op = "createAlert" -> "rule_name and condition required"
      [] OTHER -> "Invalid body"
Unreadable(op, a, raw) ==
    /\ op \in {"ingest", "createAlert", "patchAlert"}
    /\ readBody(raw) # "value"
    /\ budget.ops > 0
    /\ budget' = [budget EXCEPT !.ops = @ - 1]
    /\ resp' = IF checkBodySize(raw) THEN Refusal(op, a, 413, "Request too large")
               ELSE IF readBody(raw) = "throws" THEN Uncaught(op, a)
               ELSE Refusal(op, a, NoBodyStatus(op), NoBodyError(op))
    /\ UNCHANGED <<now, agents, registerAttempts, sdk, events, cost_daily, alerts,
                   nextAlertId, heartbeats, reaper, reqs, evals, deliveries>>

\* POST /v1/register from address ip: the size of the body as declared, the
\* rate limit, then await readBody(req)
RegisterReceive(r, ip, body) ==
    /\ SlotFree(r)
    /\ \A q \in Slots : q < r => ~SlotFree(q)
    /\ budget.ops > 0
    /\ budget' = [budget EXCEPT !.ops = @ - 1]
    /\ IF checkBodySize(body.raw)
       THEN /\ resp' = Refusal("register", 0, 413, "Request too large")
            /\ UNCHANGED <<registerAttempts, reqs>>
       ELSE IF RateLimited(ip, now)
       THEN /\ resp' = Refusal("register", 0, 429, "Too many registrations")
            /\ UNCHANGED <<registerAttempts, reqs>>
       ELSE /\ registerAttempts' = Attempted(ip, now)
            /\ reqs' = [reqs EXCEPT ![r] = [IdleReq EXCEPT !.pc = "register", !.reg = body]]
            /\ UNCHANGED resp
    /\ UNCHANGED <<now, agents, sdk, events, cost_daily, alerts, nextAlertId, heartbeats,
                   reaper, evals, deliveries>>

\* The checks of the body of a registration: 0 to go on to the insert.
RegisterStatus(body) ==
    IF readBody(body.raw) = "null" THEN 400
    ELSE IF body.name.ty # "string" \/ Len(body.name.s) < 2 THEN 400
    ELSE IF body.email.ty = "string" /\ body.email.s # "" /\ ~body.email.ok THEN 400
    ELSE 0

\* The body is read and checked, the key drawn and hashed, and the row
\* inserted: 201 with the raw key, or 409 on a UNIQUE error.
RegisterStore(r, raw) ==
    LET body == reqs[r].reg
        keyHash == sha256(raw)
    IN /\ reqs[r].pc = "register"
       /\ raw \in RawKeys
       /\ reqs' = [reqs EXCEPT ![r] = IdleReq]
       /\ IF readBody(body.raw) = "throws"
          THEN resp' = Uncaught("register", 0) /\ UNCHANGED agents
          ELSE IF RegisterStatus(body) # 0
          THEN /\ resp' = Refusal("register", 0, RegisterStatus(body), "Invalid body")
               /\ UNCHANGED agents
          ELSE IF UniqueViolated(body.name.s, keyHash, EmailOf(body))
          THEN /\ resp' = Refusal("register", 0, 409, "Name or email already registered")
               /\ UNCHANGED agents
          ELSE /\ agents' = Append(agents, [name |-> body.name.s, api_key_hash |-> keyHash,
                                            email |-> EmailOf(body), plan |-> "free"])
               /\ resp' = Reply("register", Len(agents) + 1, raw, 201, 0)
       /\ UNCHANGED <<now, registerAttempts, sdk, events, cost_daily, alerts, nextAlertId,
                      heartbeats, reaper, evals, deliveries, budget>>

\* json_extract(data, '$.job') IS NULL OR json_extract(data, '$.job') = 'null'
JobIsNull(row) == row.data.ty # "object" \/ row.data.job \in {"", "null"}

\* DELETE /v1/cleanup
Cleanup(a) ==
    LET gone(row) == row.agent_id = a /\ row.kind = K_cron /\ JobIsNull(row)
        kept == SelectSeq(events, LAMBDA row : ~gone(row))
    IN /\ budget.ops > 0
       /\ budget' = [budget EXCEPT !.ops = @ - 1]
       /\ events' = kept
       /\ resp' = Reply("cleanup", a, 0, 200, RowCount(events) - RowCount(kept))
       /\ UNCHANGED <<now, agents, registerAttempts, sdk, cost_daily, alerts, nextAlertId, heartbeats, reaper, reqs,
                      evals, deliveries>>

\* A variant of the cutoff that takes the retention for hours
Cutoff_hours(clock, limits) == clock - limits.retentionDays * 3600

\* const cutoff = Date.now() / 1000 - limits.retentionDays * 86400
Cutoff(clock, limits) == clock - limits.retentionDays * DAY

\* Object.entries(PLAN_LIMITS), in the order of its keys
Plans == <<"free", "pro">>
AfterPlan(plan) ==
    IF \E i \in 1..(Len(Plans) - 1) : Plans[i] = plan
    THEN Plans[(CHOOSE i \in 1..(Len(Plans) - 1) : Plans[i] = plan) + 1]
    ELSE "cost"

ReaperFrame == <<now, agents, registerAttempts, sdk, alerts, nextAlertId, heartbeats, reqs, evals, resp,
                 deliveries>>

\* The cron trigger invokes scheduled(): the first iteration of its loop
scheduled ==
    /\ reaper = "idle"
    /\ budget.ops > 0
    /\ budget' = [budget EXCEPT !.ops = @ - 1]
    /\ reaper' = Plans[1]
    /\ UNCHANGED <<events, cost_daily>>
    /\ UNCHANGED ReaperFrame

\* DELETE FROM events WHERE agent_id IN (SELECT id FROM agents WHERE plan = ?)
\*   AND ts < ?
ReapEvents(plan) ==
    /\ reaper = plan
    /\ events' = SelectSeq(events, LAMBDA row :
                     ~(agents[row.agent_id].plan = plan
                       /\ row.ts < Cutoff(now, PLAN_LIMITS[plan])))
    /\ reaper' = AfterPlan(plan)
    /\ UNCHANGED <<cost_daily, budget>>
    /\ UNCHANGED ReaperFrame

\* DELETE FROM cost_daily WHERE date < date('now', '-90 days')
ReapCost ==
    /\ reaper = "cost"
    /\ cost_daily' = {c \in cost_daily : ~(c.date < DateOf(now) - 90)}
    /\ reaper' = "idle"
    /\ UNCHANGED <<events, budget>>
    /\ UNCHANGED ReaperFrame

\* The clock advances by d seconds.
Tick(d) ==
    /\ budget.ticks > 0
    /\ budget' = [budget EXCEPT !.ticks = @ - 1]
    /\ now' = now + d
    /\ UNCHANGED <<agents, registerAttempts, sdk, events, cost_daily, alerts, nextAlertId, heartbeats, reaper, reqs,
                   evals, resp, deliveries>>

----------------------------------------------------------------------------
(* The tenant-authenticated reads.  A response is the rows, or the         *)
(* aggregates of rows, that its JSON is made of; a returned row keeps the  *)
(* columns agent_id and by, which the JSON does not show.                  *)

RECURSIVE OrderDesc(_)
\* ORDER BY ts DESC (rows of equal ts in rowid order)
OrderDesc(rows) ==
    IF rows = <<>> THEN <<>>
    ELSE LET i == CHOOSE i \in 1..Len(rows) : \A j \in 1..Len(rows) :
                     rows[j].ts < rows[i].ts \/ (rows[j].ts = rows[i].ts /\ j >= i)
         IN <<rows[i]>> \o OrderDesc(SubSeq(rows, 1, i - 1) \o SubSeq(rows, i + 1, Len(rows)))

RECURSIVE Limit(_, _)
\* LIMIT k on row groups; a negative k is no limit in SQLite
Limit(rows, k) ==
    IF k < 0 THEN rows
    ELSE IF rows = <<>> \/ k = 0 THEN <<>>
    ELSE IF Head(rows).n <= k THEN <<Head(rows)>> \o Limit(Tail(rows), k - Head(rows).n)
    ELSE <<[Head(rows) EXCEPT !.n = k]>>

\* Math.min(parseInt(param || default), max); param is Missing when absent
LimitOf(param, default, max) ==
    LET k == IF param = Missing THEN default ELSE param IN
    IF k < max THEN k ELSE max

RECURSIVE SumSeq(_)
SumSeq(xs) == IF xs = <<>> THEN 0 ELSE Head(xs) + SumSeq(Tail(xs))

\* SUM(json_extract(data, '$.cost_usd')) and SUM(COALESCE(json_extract(data, '$.tokens'), 0))
CostSum(rows) == SumSeq([i \in 1..Len(rows) |-> rows[i].n * NumOrZero(rows[i].data.cost_usd)])
TokenSum(rows) == SumSeq([i \in 1..Len(rows) |-> rows[i].n * NumOrZero(rows[i].data.tokens)])

MinTs(rows) == CHOOSE t \in {rows[i].ts : i \in 1..Len(rows)} :
                   \A i \in 1..Len(rows) : t <= rows[i].ts
MaxTs(rows) == CHOOSE t \in {rows[i].ts : i \in 1..Len(rows)} :
                   \A i \in 1..Len(rows) : t >= rows[i].ts

\* GET /v1/alerts
GetAlerts(db, a) ==
    LET rows == SelectSeq(db.alerts, LAMBDA rule : rule.agent_id = a)
    IN [i \in 1..Len(rows) |-> rows[Len(rows) + 1 - i]]

\* A variant of the history query without its tenant filter
GetAlertsHistory_allTenants(db, a, limit) ==
    Limit(OrderDesc(SelectSeq(db.events, LAMBDA row : row.kind = K_alert_fired)),
          LimitOf(limit, 50, 200))

\* GET /v1/alerts/history?limit=
GetAlertsHistory(db, a, limit) ==
    Limit(OrderDesc(SelectSeq(db.events, LAMBDA row :
              row.agent_id = a /\ row.kind = K_alert_fired)),
          LimitOf(limit, 50, 200))

\* GET /v1/events?kind=&session=&since=&limit=; kind is <<>>, session is
\* NoSession and since is Missing when the parameter is absent
GetEvents(db, a, kind, session, since, limit) ==
    Limit(OrderDesc(SelectSeq(db.events, LAMBDA row :
              /\ row.agent_id = a
              /\ (kind # <<>> => row.kind = kind)
              /\ (session.truthy => row.session_key = session)
              /\ (since # Missing => row.ts >= since))),
          LimitOf(limit, 100, 1000))

\* GET /v1/mailbox?since=&limit=
GetMailbox(db, a, since, limit, clock) ==
    Limit(OrderDesc(SelectSeq(db.events, LAMBDA row :
              /\ row.agent_id = a
              /\ row.kind = K_mailbox
              /\ row.ts >= (IF since = Missing THEN clock - DAY ELSE since))),
          LimitOf(limit, 200, 1000))

\* GET /v1/crons
GetCrons(db, a) ==
    Limit(OrderDesc(SelectSeq(db.events, LAMBDA row : row.agent_id = a /\ row.kind = K_cron)),
          50)

\* GET /v1/sessions?since=: one record per session key of the tenant, with
\* the cost and tokens of its cost events
GetSessions(db, a, since, clock) ==
    LET from == IF since = Missing THEN clock - DAY ELSE since
        rows == SelectSeq(db.events, LAMBDA row :
                    row.agent_id = a /\ row.session_key.ty # "undefined" /\ row.ts >= from)
        of(key) == SelectSeq(rows, LAMBDA row : row.session_key = key)
        costOf(key) == SelectSeq(rows, LAMBDA row : row.session_key = key /\ row.kind = K_cost)
    IN {[session_key |-> key, started |-> MinTs(of(key)), last_active |-> MaxTs(of(key)),
         events |-> RowCount(of(key)), cost |-> CostSum(costOf(key)),
         tokens |-> TokenSum(costOf(key))] :
        key \in {rows[i].session_key : i \in 1..Len(rows)}}

\* period === "7d" ? 7 : period === "30d" ? 30 : 1
PeriodDays(period) == IF period = "7d" THEN 7 ELSE IF period = "30d" THEN 30 ELSE 1

\* GET /v1/stats?period=
GetStats(db, a, period, clock) ==
    LET sinceTs == clock - PeriodDays(period) * DAY
        rows == SelectSeq(db.events, LAMBDA row : row.agent_id = a /\ row.ts >= sinceTs)
        kindOf(k) == SelectSeq(rows, LAMBDA row : row.kind = k)
        crons == kindOf(K_cron)
        costs == SelectSeq(rows, LAMBDA row :
                     row.kind = K_cost /\ row.session_key.ty # "undefined")
        daily == {c \in db.cost_daily :
                     c.agent_id = a /\ c.date >= DateOf(clock) - PeriodDays(period)}
        dailySeq == CHOOSE q \in [1..Cardinality(daily) -> daily] :
                        \A i, j \in 1..Cardinality(daily) : i < j => q[i].date < q[j].date
    IN [period |-> period,
        last_seen |-> db.heartbeats[a],
        alive |-> db.heartbeats[a] # 0 /\ clock - db.heartbeats[a] < 1200,
        events |-> {[kind |-> k, count |-> RowCount(kindOf(k))] :
                       k \in {rows[i].kind : i \in 1..Len(rows)}},
        cost |-> [usd |-> SumSeq([i \in 1..Len(dailySeq) |-> dailySeq[i].total_cost]),
                  tokens |-> SumSeq([i \in 1..Len(dailySeq) |-> dailySeq[i].total_tokens])],
        cron_health |->
            {[job |-> crons[i].data.job, status |-> crons[i].data.status,
              count |-> RowCount(SelectSeq(crons, LAMBDA row :
                            row.data.job = crons[i].data.job
                            /\ row.data.status = crons[i].data.status))] :
             i \in 1..Len(crons)},
        top_sessions |->
            {[key |-> costs[i].session_key,
              cost |-> CostSum(SelectSeq(costs, LAMBDA row :
                           row.session_key = costs[i].session_key)),
              tokens |-> TokenSum(SelectSeq(costs, LAMBDA row :
                             row.session_key = costs[i].session_key))] :
             i \in 1..Len(costs)},
        daily_spend |-> [i \in 1..Len(dailySeq) |-> [date |-> dailySeq[i].date,
                                                     cost |-> dailySeq[i].total_cost]]]

\* A read request: its endpoint and query parameters
Query(op, kind, session, since, limit, period) ==
    [op |-> op, kind |-> kind, session |-> session, since |-> since, limit |-> limit,
     period |-> period]

\* The tables that the reads query
DB == [events |-> events, alerts |-> alerts, cost_daily |-> cost_daily,
       heartbeats |-> heartbeats]

\* The body of the response to query q with tenant a's credential, from the
\* tables db
Response(db, a, q, clock) ==
    CASE q.op = "alerts" -> GetAlerts(db, a)
      [] q.op = "history" -> GetAlertsHistory(db, a, q.limit)
      [] q.op = "events" -> GetEvents(db, a, q.kind, q.session, q.since, q.limit)
      [] q.op = "mailbox" -> GetMailbox(db, a, q.since, q.limit, clock)
      [] q.op = "crons" -> GetCrons(db, a)
      [] q.op = "sessions" -> GetSessions(db, a, q.since, clock)
      [] q.op = "stats" -> GetStats(db, a, q.period, clock)

\* A tenant-authenticated GET
Read(a, q) ==
    /\ budget.reads > 0
    /\ budget' = [budget EXCEPT !.reads = @ - 1]
    /\ resp' = [op |-> q.op, agent |-> a, id |-> 0, status |-> 200, accepted |-> 0,
                error |-> "", body |-> Response(DB, a, q, now)]
    /\ UNCHANGED <<now, agents, registerAttempts, sdk, events, cost_daily, alerts, nextAlertId, heartbeats, reaper, reqs,
                   evals, deliveries>>

----------------------------------------------------------------------------
(* Inputs and initial stores *)

HookOk == Url("https:", <<"public", "example", "com">>)

V_metric(c) == Ev(Chars(K_metric), Num(c), NoSession, EmptyObj)
V_cost(c, cents, tokens) ==
    Ev(Chars(K_cost), Num(c), SessStr(8), Obj(40, cents, tokens, "", 0))
V_cron(c, status) == Ev(Chars(K_cron), Num(c), NoSession, Obj(30, Missing, Missing, status, 0))
V_fired(c, rule) ==
    Ev(Chars(K_alert_fired), Num(c), NoSession, Obj(20, Missing, Missing, "", rule))

\* Events that the validation loop lets pass, at clock c
PassingEvents(c) ==
    {V_metric(c), V_cost(c, 600, 10), V_cron(c, "fail"),
     Ev(Chars(K_cost), Num(c), NoSession, EmptyObj),
     Ev(Chars(K_cost), Num(c), NoSession, NullData),
     Ev(Chars(K_cost), Num(c), NoSession, NoData),
     Ev(Chars(K_metric), Num(c), NoSession, NullData),
     Ev(Chars(K_metric), Num(c), NoSession, NoData),
     Ev(Chars(K_long64), Num(c), NoSession, EmptyObj),
     Ev(Chars(K_alert_fired), Num(c), NoSession, EmptyObj),
     Ev(Chars(K_metric), Num(c + DAY), NoSession, EmptyObj),
     Ev(Chars(K_metric), Num(MIN_TS), NoSession, EmptyObj),
     Ev(Chars(K_metric), Num(c), SessStr(MAX_SESSION_LEN), Obj(MAX_DATA_LEN, Missing, Missing, "", 0)),
     Ev(Chars(K_metric), Num(c), SessStr(0), EmptyObj),
     Ev(Chars(K_metric), Num(c), SessZero, EmptyObj),
     Ev(Chars(K_cost), Num(c), NoSession, ArrData)}

\* Events that it stops at, at clock c
FailingEvents(c) ==
    {Ev(Chars(K_dash), Num(c), NoSession, EmptyObj),
     Ev(Chars(K_empty), Num(c), NoSession, EmptyObj),
     Ev(Chars(K_long65), Num(c), NoSession, EmptyObj),
     Ev(NotAString, Num(c), NoSession, EmptyObj),
     Ev(Chars(K_metric), Num(MIN_TS - 1), NoSession, EmptyObj),
     Ev(Chars(K_metric), Num(c + DAY + 1), NoSession, EmptyObj),
     Ev(Chars(K_metric), NotANumber, NoSession, EmptyObj),
     Ev(Chars(K_metric), Num(c), NoSession, NumData),
     Ev(Chars(K_metric), Num(c), NoSession, Obj(MAX_DATA_LEN + 1, Missing, Missing, "", 0)),
     Ev(Chars(K_metric), Num(c), SessStr(MAX_SESSION_LEN + 1), EmptyObj),
     Ev(Chars(K_metric), Num(c), SessNum, EmptyObj)}

GateBatches(c) ==
    {<<>>}
    \cup {<<Seg(e, 1)>> : e \in PassingEvents(c)}
    \cup {<<Seg(V_metric(c), n)>> : n \in {10, 11, 100, 101, 500, 501}}
    \cup {<<Seg(V_metric(c), 1), Seg(e, 1)>> : e \in FailingEvents(c)}
    \cup {<<Seg(e, 1), Seg(V_metric(c), 9)>> : e \in FailingEvents(c)}
    \cup {<<Seg(V_cost(c, 10, 3), 1), Seg(V_cost(c, 5, 4), 1)>>,
          <<Seg(V_metric(c), 9), Seg(V_cost(c, 600, 10), 2)>>}

Rule(id, a, metric, op, threshold, channel, url) ==
    NewRule(id, a, RuleBody("rule", metric, op, threshold, channel, url))

\* A store of NumTenants tenants; tenant 1 is on the given plan and owns pre
\* events timestamped preTs; the others are on the free plan.
StoreWith(plan, pre, preTs, rules, left, client) ==
    /\ now = T0
    /\ agents = [t \in Tenants |->
                    IF t = 1 THEN Account(t, "owner@example.com", plan)
                    ELSE Account(t, "", "free")]
    /\ events = (IF pre > 0
                 THEN <<Row(1, K_metric, preTs, NoSession, EmptyObj, pre, "gateway")>>
                 ELSE <<>>)
                \o <<Row(NumTenants, K_metric, T0 - 60, NoSession, EmptyObj, 7, "gateway")>>
    /\ cost_daily = {}
    /\ alerts = rules
    /\ nextAlertId = Len(rules) + 1
    /\ heartbeats = [t \in Tenants |-> 0]
    /\ registerAttempts = NoAttempts
    /\ sdk = client
    /\ reaper = "idle"
    /\ reqs = [r \in Slots |-> IdleReq]
    /\ evals = [r \in Slots |-> IdleEval]
    /\ resp = NoResp
    /\ deliveries = <<>>
    /\ budget = left

\* The same beside the client of the test script
Store(plan, pre, preTs, rules, left) ==
    StoreWith(plan, pre, preTs, rules, left, NewSdk)

----------------------------------------------------------------------------
(* SpecGate: the ingest handler on every shape of batch, one request at a *)
(* time, with the evaluations it starts                                    *)

InitGate ==
    \E cfg \in {<<"free", 0>>, <<"free", 4990>>, <<"pro", 99990>>} :
        Store(cfg[1], cfg[2], T0 - DAY + 300,
              <<Rule(1, 1, "daily_events", "gte", 1, "webhook", HookOk)>>,
              [ingests |-> GateIngests, ticks |-> GateTicks, ops |-> 0, reads |-> 0])

Quiet == \A r \in Slots : SlotFree(r)

NextGate ==
    \/ \E r \in Slots, a \in Tenants, b \in GateBatches(now) :
          Quiet /\ IngestReceive(r, a, b)
    \/ \E r \in Slots : IngestGate(r)
    \/ \E r \in Slots, fate \in Fates : IngestInsert(r, fate)
    \/ \E r \in Slots, fate \in Fates : IngestAggregate(r, fate)
    \/ \E e \in Slots : EvalLoad(e)
    \/ \E e \in Slots : EvalMetric(e)
    \/ \E e \in Slots : EvalDedup(e)
    \/ \E e \in Slots : EvalFire(e)
    \/ \E e \in Slots : EvalThrow(e)
    \/ \E e \in Slots : EvalDrop(e)
    \/ \E d \in {301} : Quiet /\ Tick(d)

SpecGate == InitGate /\ [][NextGate]_vars

----------------------------------------------------------------------------
(* SpecRace: up to MaxInflight ingest requests of a tenant near its daily   *)
(* cap, and their evaluations, interleaved step by step                     *)

RaceBatches(c) == {<<Seg(V_metric(c), 100)>>, <<Seg(V_metric(c), 1)>>}

InitRace ==
    Store("free", 4899, T0 - 60,
          <<Rule(1, 1, "daily_events", "gte", 1, "webhook", HookOk)>>,
          [ingests |-> RaceIngests, ticks |-> RaceTicks, ops |-> 0, reads |-> 0])

NextRace ==
    \/ \E r \in Slots, b \in RaceBatches(now) : IngestReceive(r, 1, b)
    \/ \E r \in Slots : IngestGate(r)
    \/ \E r \in Slots : IngestInsert(r, "completes")
    \/ \E e \in Slots : EvalLoad(e)
    \/ \E e \in Slots : EvalMetric(e)
    \/ \E e \in Slots : EvalDedup(e)
    \/ \E e \in Slots : EvalFire(e)
    \/ \E d \in {3601} : Tick(d)

SpecRace == InitRace /\ [][NextRace]_vars

----------------------------------------------------------------------------
(* SpecDedup: a tenant whose rules stay triggered, ingesting one batch     *)
(* after another while the clock passes the one-hour cooldown              *)

DedupBatches(c) ==
    {<<Seg(V_metric(c), 1)>>,
     <<Seg(V_cron(c, "fail"), 1)>>,
     <<Seg(V_fired(c, 1), 1)>>}

InitDedup ==
    Store("free", 0, T0 - 60,
          <<Rule(1, 1, "daily_events", "gte", 1, "webhook", HookOk),
            Rule(2, 1, "cron_fail_count", "gte", 1, "webhook", HookOk)>>,
          [ingests |-> DedupIngests, ticks |-> DedupTicks, ops |-> 0, reads |-> 0])

NextDedup ==
    \/ \E r \in Slots, b \in DedupBatches(now) : Quiet /\ IngestReceive(r, 1, b)
    \/ \E r \in Slots : IngestGate(r)
    \/ \E r \in Slots : IngestInsert(r, "completes")
    \/ \E e \in Slots : EvalLoad(e)
    \/ \E e \in Slots : EvalMetric(e)
    \/ \E e \in Slots : EvalDedup(e)
    \/ \E e \in Slots : EvalFire(e)
    \/ \E d \in {300, 3301} : Quiet /\ Tick(d)

SpecDedup == InitDedup /\ [][NextDedup]_vars

----------------------------------------------------------------------------
(* SpecEval: a tenant with three rules and a history of cron runs, one     *)
(* batch of cron events after another, and evaluations that complete,      *)
(* throw or are dropped                                                    *)

EvalBatches(c) ==
    {<<Seg(V_cron(c, "fail"), 2)>>,
     <<Seg(V_cron(c, "fail"), 1)>>,
     <<Seg(V_cron(c, "ok"), 1)>>,
     <<Seg(V_cron(c, "fail"), 1), Seg(V_cron(c, "ok"), 1)>>,
     <<Seg(V_cron(c, "ok"), 1), Seg(V_cron(c, "fail"), 1)>>,
     <<Seg(V_metric(c), 1)>>}

CronRow(a, ts, status, n) ==
    Row(a, K_cron, ts, NoSession, Obj(30, Missing, Missing, status, 0), n, "gateway")

InitEval ==
    /\ now = T0
    /\ agents = [t \in Tenants |->
                    IF t = 1 THEN Account(t, "owner@example.com", "free")
                    ELSE Account(t, "", "free")]
    /\ events = <<CronRow(1, T0 - 300, "fail", 2), CronRow(1, T0 - 200, "ok", 1),
                  CronRow(NumTenants, T0 - 150, "ok", 3), CronRow(1, T0 - 100, "fail", 8)>>
    /\ cost_daily = {}
    /\ alerts = <<Rule(1, 1, "cron_fail_streak", "gte", 0, "webhook", HookOk),
                  Rule(2, 1, "cron_fail_count", "gte", 1, "email", NullUrl),
                  Rule(3, 1, "daily_events", "gte", 1, "webhook", HookOk)>>
    /\ nextAlertId = 4
    /\ heartbeats = [t \in Tenants |-> 0]
    /\ registerAttempts = NoAttempts
    /\ sdk = NewSdk
    /\ reaper = "idle"
    /\ reqs = [r \in Slots |-> IdleReq]
    /\ evals = [r \in Slots |-> IdleEval]
    /\ resp = NoResp
    /\ deliveries = <<>>
    /\ budget = [ingests |-> EvalIngests, ticks |-> EvalTicks, ops |-> 0, reads |-> 0]

NextEval ==
    \/ \E r \in Slots, b \in EvalBatches(now) : Quiet /\ IngestReceive(r, 1, b)
    \/ \E r \in Slots : IngestGate(r)
    \/ \E r \in Slots, fate \in Fates : IngestInsert(r, fate)
    \/ \E e \in Slots : EvalLoad(e)
    \/ \E e \in Slots : EvalMetric(e)
    \/ \E e \in Slots : EvalDedup(e)
    \/ \E e \in Slots : EvalFire(e)
    \/ \E e \in Slots : EvalEmail(e)
    \/ \E e \in Slots : EvalThrow(e)
    \/ \E e \in Slots : EvalDrop(e)
    \/ \E d \in {3601} : Quiet /\ Tick(d)

SpecEval == InitEval /\ [][NextEval]_vars

----------------------------------------------------------------------------
(* SpecCost: batches of cost events of one tenant, their requests and      *)
(* evaluations interleaved, one second before the server date changes      *)

\* A cost event whose cost_usd is the JSON string of the digits of k
V_costStr(c, k, tokens) ==
    Ev(Chars(K_cost), Num(c), SessStr(8),
       [Obj(40, k, tokens, "", 0) EXCEPT !.cost_str = TRUE])

CostBatches(c) ==
    {<<Seg(V_cost(c, 5, 10), 1)>>,
     <<Seg(V_cost(c, 600, 10), 2)>>,
     <<Seg(V_cost(c, 10, 3), 1), Seg(V_cost(c, 5, 4), 1)>>,
     <<Seg(V_costStr(c, 5, 7), 1), Seg(V_cost(c, 3, 4), 1)>>,
     <<Seg(V_cost(c, 3, 4), 1), Seg(V_costStr(c, 5, 7), 1)>>,
     <<Seg(V_costStr(c, 5, 7), 1)>>,
     <<Seg(Ev(Chars(K_cost), Num(c), NoSession, EmptyObj), 1)>>,
     <<Seg(V_metric(c), 1)>>}

InitCost ==
    /\ now = T0 + DAY - 1
    /\ agents = [t \in Tenants |-> Account(t, "", "free")]
    /\ events = <<Row(NumTenants, K_metric, T0, NoSession, EmptyObj, 7, "gateway")>>
    /\ cost_daily = {}
    /\ alerts = <<Rule(1, 1, "daily_cost", "gt", 500, "webhook", HookOk),
                  Rule(2, 1, "daily_tokens", "gte", 1, "webhook", HookOk)>>
    /\ nextAlertId = 3
    /\ heartbeats = [t \in Tenants |-> 0]
    /\ registerAttempts = NoAttempts
    /\ sdk = NewSdk
    /\ reaper = "idle"
    /\ reqs = [r \in Slots |-> IdleReq]
    /\ evals = [r \in Slots |-> IdleEval]
    /\ resp = NoResp
    /\ deliveries = <<>>
    /\ budget = [ingests |-> CostIngests, ticks |-> CostTicks, ops |-> 0, reads |-> 0]

NextCost ==
    \/ \E r \in Slots, b \in CostBatches(now) : IngestReceive(r, 1, b)
    \/ \E r \in Slots : IngestGate(r)
    \/ \E r \in Slots : IngestInsert(r, "completes")
    \/ \E r \in Slots : IngestAggregate(r, "completes")
    \/ \E e \in Slots : EvalLoad(e)
    \/ \E e \in Slots : EvalMetric(e)
    \/ \E e \in Slots : EvalDedup(e)
    \/ \E e \in Slots : EvalFire(e)
    \/ \E d \in {1} : Tick(d)

SpecCost == InitCost /\ [][NextCost]_vars

----------------------------------------------------------------------------
(* SpecReaper: the scheduled retention run, statement by statement, beside *)
(* ingest requests and the cleanup endpoint, over tenants on each plan     *)

\* Timestamps on either side of each plan's cutoff at T0, and a recent one
OldTs == <<T0 - 90 * DAY - 1, T0 - 90 * DAY, T0 - 7 * DAY - 1, T0 - 7 * DAY, T0 - 3600>>

ReaperBatches(c) ==
    {<<Seg(V_metric(c), 1)>>,
     <<Seg(Ev(Chars(K_metric), Num(MIN_TS), NoSession, EmptyObj), 1)>>,
     <<Seg(V_cost(c, 5, 10), 1)>>}

\* Tenant 1 is on the free plan, the pro plan or a plan that PLAN_LIMITS does
\* not name; the last tenant is on the pro plan, the others on the free plan.
InitReaper ==
    \E plan \in {"free", "pro", "team"} :
        /\ now = T0
        /\ agents = [t \in Tenants |->
                        Account(t, "", IF t = 1 THEN plan
                                       ELSE IF t = NumTenants THEN "pro" ELSE "free")]
        /\ events = [k \in 1..(NumTenants * Len(OldTs)) |->
                        Row(((k - 1) \div Len(OldTs)) + 1, K_metric,
                            OldTs[((k - 1) % Len(OldTs)) + 1], NoSession, EmptyObj, 1,
                            "gateway")]
                    \o <<CronRow(1, T0 - 60, "ok", 1)>>
        /\ cost_daily = {[agent_id |-> 1, date |-> DateOf(T0) - d, total_cost |-> 5,
                          total_tokens |-> 10, event_count |-> 1] : d \in {0, 90, 91}}
        /\ alerts = <<Rule(1, 1, "daily_events", "gte", 1, "webhook", HookOk)>>
        /\ nextAlertId = 2
        /\ heartbeats = [t \in Tenants |-> 0]
        /\ registerAttempts = NoAttempts
        /\ sdk = NewSdk
        /\ reaper = "idle"
        /\ reqs = [r \in Slots |-> IdleReq]
        /\ evals = [r \in Slots |-> IdleEval]
        /\ resp = NoResp
        /\ deliveries = <<>>
        /\ budget = [ingests |-> ReaperIngests, ticks |-> ReaperTicks,
                     ops |-> ReaperOps, reads |-> 0]

NextReaper ==
    \/ \E r \in Slots, a \in Tenants, b \in ReaperBatches(now) : IngestReceive(r, a, b)
    \/ \E r \in Slots : IngestGate(r)
    \/ \E r \in Slots : IngestInsert(r, "completes")
    \/ \E r \in Slots : IngestAggregate(r, "completes")
    \/ \E e \in Slots : EvalLoad(e)
    \/ \E e \in Slots : EvalMetric(e)
    \/ \E e \in Slots : EvalDedup(e)
    \/ \E e \in Slots : EvalFire(e)
    \/ scheduled
    \/ \E i \in 1..Len(Plans) : ReapEvents(Plans[i])
    \/ ReapCost
    \/ \E a \in Tenants : Cleanup(a)
    \/ \E d \in {DAY} : Tick(d)

SpecReaper == InitReaper /\ [][NextReaper]_vars

----------------------------------------------------------------------------
(* Spec: two tenants using every endpoint, their requests and evaluations  *)
(* interleaved                                                             *)

Hook2 == Url("https:", <<"hooks", "example", "org">>)
HookPrivate == Url("https:", <<"10", "0", "0", "1">>)

Batches(c) ==
    {<<Seg(V_cost(c, 600, 10), 1)>>,
     <<Seg(V_cron(c, "fail"), 1)>>,
     <<Seg(Ev(Chars(K_mailbox), Num(c), SessStr(8), EmptyObj), 1)>>}

CreateBodies ==
    {RuleBody("r", "daily_cost", "gt", 500, "", Hook2),
     RuleBody("r", "daily_cost", "gt", 500, "webhook", HookPrivate),
     RuleBody("r", "daily_cost", "gt", 500, "sms", HookPrivate),
     RuleBody("r", "daily_cost", "gt", 500, "email", NoUrl),
     RuleBody("", "daily_cost", "gt", 500, "email", NoUrl)}

PatchBodies ==
    {PatchBody("false", NoUrl, Unset),
     PatchBody("unset", Hook2, Unset),
     PatchBody("unset", HookPrivate, Unset),
     PatchBody("unset", EmptyUrl, Unset),
     PatchBody("unset", NoUrl, Unset)}

Queries ==
    {Query("alerts", <<>>, NoSession, Missing, Missing, ""),
     Query("history", <<>>, NoSession, Missing, Missing, ""),
     Query("history", <<>>, NoSession, Missing, 1, ""),
     Query("events", <<>>, NoSession, Missing, Missing, ""),
     Query("events", K_cost, SessStr(8), T0, 1, ""),
     Query("events", K_alert_fired, NoSession, MIN_TS, -1, ""),
     Query("mailbox", <<>>, NoSession, Missing, Missing, ""),
     Query("crons", <<>>, NoSession, Missing, Missing, ""),
     Query("sessions", <<>>, NoSession, Missing, Missing, ""),
     Query("sessions", <<>>, NoSession, MIN_TS, Missing, ""),
     Query("stats", <<>>, NoSession, Missing, Missing, ""),
     Query("stats", <<>>, NoSession, Missing, Missing, "7d")}

Init ==
    Store("free", 0, T0 - 60,
          <<Rule(1, 1, "daily_cost", "gt", 500, "webhook", HookOk),
            Rule(2, NumTenants, "cron_fail_count", "gte", 1, "email", NullUrl)>>,
          [ingests |-> MaxIngests, ticks |-> MaxTicks, ops |-> MaxOps, reads |-> MaxReads])

Next ==
    \/ \E r \in Slots, a \in Tenants, b \in Batches(now) : Quiet /\ IngestReceive(r, a, b)
    \/ \E r \in Slots : IngestGate(r)
    \/ \E r \in Slots : IngestInsert(r, "completes")
    \/ \E r \in Slots : IngestAggregate(r, "completes")
    \/ \E e \in Slots : EvalLoad(e)
    \/ \E e \in Slots : EvalMetric(e)
    \/ \E e \in Slots : EvalDedup(e)
    \/ \E e \in Slots : EvalFire(e)
    \/ \E e \in Slots : EvalEmail(e)
    \/ \E a \in Tenants, body \in CreateBodies : CreateAlert(a, body)
    \/ \E a \in Tenants, id \in 1..3, body \in PatchBodies : PatchAlert(a, id, body)
    \/ \E a \in Tenants, id \in 1..3 : DeleteAlert(a, id)
    \/ \E a \in Tenants : Heartbeat(a)
    \/ \E a \in Tenants : Cleanup(a)
    \/ \E a \in Tenants, q \in Queries : Quiet /\ q.limit = Missing /\ Read(a, q)
    \/ \E d \in {3601} : Quiet /\ Tick(d)

Spec == Init /\ [][Next]_vars

----------------------------------------------------------------------------
(* SpecRules: rule management by a tenant one rule short of the cap, its   *)
(* create requests interleaved step by step                                *)

\* Ids of a rule of tenant 1, of a rule of the last tenant and of no rule
RuleIdsTried == {1, MAX_RULES, 2 * MAX_RULES}

InitRules ==
    Store("free", 0, T0 - 60,
          [i \in 1..MAX_RULES |->
              IF i < MAX_RULES
              THEN Rule(i, 1, "daily_events", "gte", 1, "webhook", HookOk)
              ELSE Rule(i, NumTenants, "daily_cost", "gt", 500, "email", NullUrl)],
          [ingests |-> 0, ticks |-> 0, ops |-> RulesOps, reads |-> 0])

NextRules ==
    \/ \E r \in Slots, a \in Tenants, body \in CreateBodies : CreateReceive(r, a, body)
    \/ \E r \in Slots : CreateCheck(r)
    \/ \E r \in Slots : CreateStore(r)
    \/ \E a \in Tenants, id \in RuleIdsTried, body \in PatchBodies : PatchAlert(a, id, body)
    \/ \E a \in Tenants, id \in RuleIdsTried : DeleteAlert(a, id)

SpecRules == InitRules /\ [][NextRules]_vars

----------------------------------------------------------------------------
(* Properties of the ingest handler, under SpecGate *)

\* The request in slot r leaves the step it is at
Leaves(r, pc) == reqs[r].pc = pc /\ reqs'[r].pc # pc

\* The request in slot r is answered in this step
Answered(r) == reqs[r].pc # "idle" /\ reqs'[r].pc = "idle"

\* The step refuses the request in slot r: nothing of it reaches the store
\* and no evaluation is started.
Refused(r, statuses) ==
    /\ reqs'[r] = IdleReq
    /\ resp'.op = "ingest" /\ resp'.agent = reqs[r].agent
    /\ resp'.status \in statuses
    /\ UNCHANGED <<events, cost_daily, evals, deliveries>>

\* The rows that the step appends to the events table
Added == SubSeq(events', Len(events) + 1, Len(events'))

\* C1: every batch that passes authentication, per-event validation and both
\* quota checks is answered 200 with accepted equal to the number of its
\* events, and the request adds exactly that many event rows, each owned by
\* the authenticated tenant.
C1_AcceptedBatchStored ==
    [][\A r \in Slots :
          LET a == reqs[r].agent
              n == BatchLen(reqs[r].batch)
          IN /\ Leaves(r, "insert")
                => /\ Len(events') >= Len(events)
                   /\ SubSeq(events', 1, Len(events)) = events
                   /\ RowCount(Added) = n
                   /\ \A i \in 1..Len(Added) : Added[i].agent_id = a
             /\ (reqs[r].pc \in {"insert", "aggregate"} /\ Answered(r))
                => resp' = Reply("ingest", a, 0, 200, n)]_vars

\* The events that the statement of C2 calls invalid: a session key that is
\* present has to be a string of at most 256 characters.
C2_Invalid(e, clock) ==
    \/ ~(/\ e.kind.ty = "string"
         /\ Len(e.kind.s) \in 1..64
         /\ \A i \in 1..Len(e.kind.s) : e.kind.s[i] \in KindChars)
    \/ ~(e.ts.ty = "number" /\ e.ts.v >= MIN_TS /\ e.ts.v <= clock + DAY)
    \/ e.data.ty \notin {"undefined", "null", "object", "array"}
    \/ (e.data.ty \in {"object", "array"} /\ e.data.size > 16384)
    \/ (e.session.ty # "undefined" /\ ~(e.session.ty = "string" /\ e.session.len <= 256))

\* C2: if any event of a batch fails per-event validation, whatever its
\* position, the whole batch is rejected: no event of it is persisted, no
\* aggregate row changes and no alert evaluation is started.
C2_InvalidEventRejectsBatch ==
    [][\A r \in Slots :
          (/\ Leaves(r, "validate")
           /\ \E i \in 1..Len(reqs[r].batch) : C2_Invalid(reqs[r].batch[i].e, now))
          => Refused(r, {400, 413})]_vars

\* The tenant's events timestamped in the trailing 24 hours
C3_Trailing(a, clock) ==
    RowCount(SelectSeq(events, LAMBDA row :
        row.agent_id = a /\ row.ts >= clock - DAY /\ row.ts <= clock))

\* The request in slot r has passed every check before the daily count
C3_AtQuota(r) ==
    /\ reqs[r].pc = "validate"
    /\ BatchLen(reqs[r].batch) \in 1..LimitsOf(agents[reqs[r].agent].plan).maxBatchSize
    /\ ValidationError(reqs[r].batch, now) = ""

\* C3: with no concurrent requests, a batch of n events from a tenant with c
\* events timestamped in the trailing 24 hours is rejected with 429 and
\* persists nothing when c + n exceeds the plan's daily cap, and is accepted
\* when c + n is within it.
C3_DailyCap ==
    [][\A r \in Slots :
          LET a == reqs[r].agent
              n == BatchLen(reqs[r].batch)
              cap == LimitsOf(agents[a].plan).eventsPerDay
          IN (C3_AtQuota(r) /\ Leaves(r, "validate"))
             => IF C3_Trailing(a, now) + n > cap
                THEN Refused(r, {429})
                ELSE reqs'[r].pc = "insert"]_vars

\* C10: the ingest response is produced without waiting for the evaluation
\* and is the same whether the evaluation succeeds, throws or never
\* completes: the step that starts the task answers 200 with the batch's
\* length whatever the task's fate, and no step of a task changes the answer.
C10_ResponseIgnoresEvaluation ==
    [][/\ \A r \in Slots :
            (evals[r].pc = "idle" /\ evals'[r].pc # "idle")
            => resp' = Reply("ingest", reqs[r].agent, 0, 200, BatchLen(reqs[r].batch))
       /\ (reqs' = reqs /\ evals' # evals) => resp' = resp]_vars

\* An answered ingest whose evaluation is under way and will throw
C10_AnsweredWhileTaskFails ==
    \E e \in Slots :
        /\ evals[e].pc \in {"metric", "dedup", "fire"}
        /\ evals[e].fate = "throws"
        /\ resp = Reply("ingest", evals[e].agent, 0, 200, resp.accepted)
        /\ resp.accepted >= 1

----------------------------------------------------------------------------
(* Properties of the count-then-insert and check-then-insert races, under *)
(* SpecRace                                                               *)

\* The tenant's events written through the gateway and counted by the quota
GatewayCount(a, clock) ==
    RowCount(SelectSeq(events, LAMBDA row :
        row.agent_id = a /\ row.by = "gateway" /\ row.ts >= clock - DAY))

\* C4 as stated: for every interleaving of any number of concurrent ingest
\* requests of a tenant, the tenant's number of events in the trailing 24
\* hours never exceeds dailyEventCap + maxBatchSize.
C4_OvershootOneBatch ==
    \A a \in Tenants :
        C3_Trailing(a, now) <= LimitsOf(agents[a].plan).eventsPerDay
                               + LimitsOf(agents[a].plan).maxBatchSize

\* C4, amended: with at most MaxInflight ingest requests of a tenant in
\* flight at once, the number of the tenant's ingested events counted by the
\* quota (ts >= now - 24h, the evaluator's alert_fired records apart) never
\* exceeds dailyEventCap + (MaxInflight - 1) * maxBatchSize.
C4_OvershootPerRequestInFlight ==
    \A a \in Tenants :
        GatewayCount(a, now) <= LimitsOf(agents[a].plan).eventsPerDay
                                + (MaxInflight - 1) * LimitsOf(agents[a].plan).maxBatchSize

\* Three racing requests have taken a tenant more than one batch past its cap
C4_TwoBatchesOver ==
    \E a \in Tenants :
        /\ GatewayCount(a, now) > LimitsOf(agents[a].plan).eventsPerDay
                                  + LimitsOf(agents[a].plan).maxBatchSize
        /\ \A r \in Slots : reqs[r].pc = "idle"

\* The alert_fired records naming a rule, by the given writers, timestamped
\* in the hour that starts at w
FiringsIn(a, rule_id, w, writers) ==
    RowCount(SelectSeq(events, LAMBDA row :
        /\ IsRecentFire(row, a, rule_id, w)
        /\ row.ts <= w + DEDUP_WINDOW
        /\ row.by \in writers))

\* The delivery attempts for a rule in the hour that starts at w
DeliveriesIn(a, rule_id, w) ==
    Len(SelectSeq(deliveries, LAMBDA d :
        d.agent_id = a /\ d.rule_id = rule_id /\ d.at >= w /\ d.at <= w + DEDUP_WINDOW))

\* The starts of the one-hour windows that matter: each record's own time
WindowStarts ==
    {events[i].ts : i \in 1..Len(events)} \cup {deliveries[i].at : i \in 1..Len(deliveries)}

RuleIds == 1..(nextAlertId - 1)

DeliveriesFor(a, rule_id, w) ==
    Len(SelectSeq(deliveries, LAMBDA d :
        /\ d.agent_id = a /\ d.rule_id = rule_id
        /\ d.fired >= w /\ d.fired <= w + DEDUP_WINDOW))

----------------------------------------------------------------------------
(* Properties of tenant isolation and of webhook URLs, under Spec *)

\* What tenant b owns: its events, cost aggregates, rules and heartbeat
Owned(b) ==
    [events |-> SelectSeq(events, LAMBDA row : row.agent_id = b),
     cost |-> {c \in cost_daily : c.agent_id = b},
     rules |-> SelectSeq(alerts, LAMBDA rule : rule.agent_id = b),
     heartbeat |-> heartbeats[b]]

\* The queries whose response is a list of rows
RowQueries == {q \in Queries : q.op \in {"alerts", "history", "events", "mailbox", "crons"}}

\* The tables with the rows of tenant a alone
OwnDB(a) ==
    [events |-> SelectSeq(events, LAMBDA row : row.agent_id = a),
     alerts |-> SelectSeq(alerts, LAMBDA rule : rule.agent_id = a),
     cost_daily |-> {c \in cost_daily : c.agent_id = a},
     heartbeats |-> [t \in Tenants |-> IF t = a THEN heartbeats[t] ELSE 0]]

\* C5: the response of every tenant-authenticated read issued with tenant
\* A's credential contains only rows owned by A, and is unchanged by any
\* change to other tenants' events, rules or firing history, whatever filter
\* parameters A supplies: it is the response that A's own rows alone give.
C5_ReadsIsolated ==
    \A a \in Tenants, q \in Queries :
        /\ Response(DB, a, q, now) = Response(OwnDB(a), a, q, now)
        /\ q \in RowQueries
           => \A i \in 1..Len(Response(DB, a, q, now)) :
                 Response(DB, a, q, now)[i].agent_id = a

\* Tenant 1 has read its events while the other tenant owns events too
C5_ReadBesideOtherTenant ==
    /\ resp.op = "events" /\ resp.agent = 1 /\ resp.status = 200
    /\ resp.body # <<>>
    /\ Owned(NumTenants).events # <<>>
    /\ \E i \in 1..Len(events) :
          events[i].agent_id = NumTenants /\ events[i].kind = K_alert_fired

\* The step is one of a request authenticated as tenant a, or of an
\* evaluation started by a's ingest
ActsFor(a) ==
    \/ \E r \in Slots, b \in Batches(now) : IngestReceive(r, a, b)
    \/ \E r \in Slots :
          /\ reqs[r].agent = a
          /\ \/ IngestGate(r)
             \/ \E fate \in Fates : IngestInsert(r, fate) \/ IngestAggregate(r, fate)
    \/ \E e \in Slots :
          /\ evals[e].agent = a
          /\ \/ EvalLoad(e) \/ EvalMetric(e) \/ EvalDedup(e) \/ EvalFire(e)
             \/ EvalEmail(e) \/ EvalThrow(e) \/ EvalDrop(e)
    \/ \E body \in CreateBodies : CreateAlert(a, body)
    \/ \E id \in 1..3, body \in PatchBodies : PatchAlert(a, id, body)
    \/ \E id \in 1..3 : DeleteAlert(a, id)
    \/ Heartbeat(a)
    \/ Cleanup(a)
    \/ \E q \in Queries : Read(a, q)

\* All that an evaluation for tenant a reads: its enabled rules, each metric
\* and the dedup lookup of each rule
EvalView(a) ==
    [rules |-> EnabledRules(a),
     metric |-> [m \in validMetrics |-> MetricOf([metric |-> m], a, TRUE, TRUE, now)],
     recent |-> [id \in 1..3 |-> recentFire(a, id, now)]]

\* C6: no request authenticated as tenant A, and no alert evaluation
\* triggered by A's ingest, creates, changes or deletes an event, cost
\* aggregate, alert rule or heartbeat owned by another tenant B; the
\* evaluation triggered by A's ingest evaluates only A's rules, from A's
\* data, and its dedup lookup sees only A's firing records.
C6_WritesIsolated ==
    [][\A a \in Tenants :
          /\ ActsFor(a) => \A b \in Tenants \ {a} : Owned(b)' = Owned(b)
          /\ \A e \in Slots :
                evals'[e].agent = a
                => \A i \in 1..Len(evals'[e].rules) : evals'[e].rules[i].agent_id = a
          /\ (Owned(a)' = Owned(a) /\ now' = now) => EvalView(a)' = EvalView(a)]_vars

\* Tenant 1 has tried to delete rule 2, which the other tenant owns, and an
\* evaluation for the other tenant has fired that rule
C6_ForeignRuleSurvives ==
    /\ resp = Reply("deleteAlert", 1, 2, 404, 0)
    /\ \E i \in 1..Len(alerts) : alerts[i].id = 2 /\ alerts[i].agent_id = NumTenants
    /\ \E i \in 1..Len(events) :
          /\ events[i].agent_id = NumTenants
          /\ events[i].by = "evaluator"
          /\ events[i].data.rule_id = 2

\* C9: after any sequence of rule create and update operations, every URL
\* to which a webhook POST is sent passed isValidWebhookUrl when it was
\* stored; no URL stored without passing the check is ever fetched.
C9_DeliveredUrlsAdmissible ==
    /\ \A i \in 1..Len(deliveries) :
          deliveries[i].channel = "webhook" => isValidWebhookUrl(deliveries[i].url)
    /\ \A i \in 1..Len(alerts) :
          (alerts[i].channel = "webhook" /\ UrlTruthy(alerts[i].webhook_url))
          => isValidWebhookUrl(alerts[i].webhook_url)

\* A webhook has been posted to a URL that a PATCH stored
C9_DeliveredToPatchedUrl ==
    \E i \in 1..Len(deliveries) :
        /\ deliveries[i].channel = "webhook"
        /\ deliveries[i].url = Hook2
        /\ deliveries[i].rule_id = 1

----------------------------------------------------------------------------
(* Properties of the one-hour cooldown, under SpecDedup *)

\* The timestamps of the alert_fired records that the evaluator wrote for a rule
FiredAt(a, rule_id) ==
    {events[i].ts : i \in {j \in 1..Len(events) :
        /\ events[j].agent_id = a /\ events[j].by = "evaluator"
        /\ events[j].kind = K_alert_fired /\ events[j].data.rule_id = rule_id}}

\* C7: with ingestion requests processed one after another, once the
\* evaluator has recorded an alert_fired event for a rule, no evaluation
\* during the following hour records another one or makes a delivery for
\* that rule although its condition still holds, and the first evaluation
\* after the hour has elapsed with the condition still true records a new
\* firing.
C7_CooldownThenRefire ==
    [][\A e \in Slots :
          LET task == evals[e]
              id == task.rules[task.i].id
              fired == FiredAt(task.agent, id)
          IN (task.pc = "dedup" /\ evals'[e] # task /\ fired # {})
             => IF \E t \in fired : now <= t + DEDUP_WINDOW
                THEN /\ evals'[e].pc # "fire"
                     /\ UNCHANGED <<events, deliveries>>
                ELSE evals'[e].pc = "fire"]_vars

----------------------------------------------------------------------------
(* Properties of the evaluation's place in the request, under SpecGate *)

\* The step starts the evaluation of slot e
Started(e) == evals[e].pc = "idle" /\ evals'[e].pc # "idle"

\* The step is one of the evaluation of slot e: the rules query, a metric
\* query, the dedup lookup, the alert_fired insert and delivery, the email
\* lookup and send, or its end
EvalStep(e) == evals[e].pc # "idle" /\ evals'[e] # evals[e]

----------------------------------------------------------------------------
(* Properties of the evaluation loop, under SpecEval *)

\* C12: an error while one rule is evaluated or delivered (a failed store
\* statement in its metric query, dedup lookup, alert_fired insert or email
\* lookup) does not end the run: a task that meets an error on a rule that is
\* not its last goes on with the remaining rules.
C12_ErrorKeepsLoopGoing ==
    [][\A e \in Slots :
          (/\ evals[e].fate = "throws"
           /\ evals[e].pc \in {"metric", "dedup", "fire", "email"}
           /\ evals[e].i < Len(evals[e].rules)
           /\ EvalStep(e))
          => evals'[e].pc # "idle"]_vars

\* The tenant's cron rows, and whether row group j comes before row group i
\* in descending timestamp order (of equal timestamps, the later insert first)
C20_Cron(a) == {i \in 1..Len(events) : events[i].agent_id = a /\ events[i].kind = K_cron}
C20_Before(j, i) ==
    events[j].ts > events[i].ts \/ (events[j].ts = events[i].ts /\ j > i)

\* The number of the tenant's cron events that come before row group i
C20_Ahead(a, i) ==
    SumSeq([j \in 1..Len(events) |->
               IF j \in C20_Cron(a) /\ C20_Before(j, i) THEN events[j].n ELSE 0])

\* The length of the leading run of failures among the 10 most recent cron
\* events of the tenant: the number of events ahead of the most recent one
\* that is not a failure, at most 10
C20_LeadingRun(a) ==
    LET notFail == {i \in C20_Cron(a) :
                       ~(events[i].data.ty = "object" /\ events[i].data.status = "fail")}
        run == IF notFail = {}
               THEN SumSeq([j \in 1..Len(events) |->
                               IF j \in C20_Cron(a) THEN events[j].n ELSE 0])
               ELSE CHOOSE k \in {C20_Ahead(a, i) : i \in notFail} :
                        \A i \in notFail : k <= C20_Ahead(a, i)
    IN IF run > 10 THEN 10 ELSE run

\* C20: the value of a cron_fail_streak rule is the length of the leading run
\* of failures among the tenant's 10 most recent cron events in descending
\* timestamp order, between 0 and 10, and the rule is skipped when the batch
\* holds no cron event.
C20_StreakIsLeadingRun ==
    [][\A e \in Slots :
          LET task == evals[e]
              rule == task.rules[task.i]
              run == C20_LeadingRun(task.agent)
          IN /\ Started(e)
                => evals'[e].cron =
                      (\E i \in 1..Len(reqs[e].batch) : reqs[e].batch[i].e.kind.s = K_cron)
             /\ (task.pc = "metric" /\ rule.metric = "cron_fail_streak" /\ EvalStep(e))
                => /\ run \in 0..10
                   /\ \/ task.fate # "completes" /\ evals'[e] = IdleEval
                      \/ ~task.cron /\ evals'[e] = NextRule(task)
                      \/ /\ task.cron
                         /\ evals'[e] =
                               IF Triggered(rule.op, run, rule.threshold)
                               THEN [task EXCEPT !.pc = "dedup", !.val = run]
                               ELSE NextRule(task)]_vars

\* An evaluation has read a streak of 10 where more than 10 failures lead.
C20_StreakCapped ==
    \E e \in Slots :
        /\ evals[e].pc = "dedup"
        /\ evals[e].rules[evals[e].i].metric = "cron_fail_streak"
        /\ evals[e].val = 10
        /\ CronFailCount(evals[e].agent, now) >= 1
        /\ CronFailCount(evals[e].agent, T0 - 100) >= 11

----------------------------------------------------------------------------
(* Properties of the cost aggregate, under SpecCost *)

\* The cost events of tenant a that ingest requests have stored
C13_CostRows(a) ==
    SelectSeq(events, LAMBDA row :
        row.agent_id = a /\ row.kind = K_cost /\ row.by = "gateway")

\* The sum of a field over rows, a string-valued field counted as zero
C13_NumbersOnly(rows, field, isStr) ==
    SumSeq([i \in 1..Len(rows) |->
               IF rows[i].data[isStr] \/ rows[i].data[field] = Missing THEN 0
               ELSE rows[i].n * rows[i].data[field]])

\* The sum of a field over rows, a string of digits counted as its number
C13_Numeric(rows, field) ==
    SumSeq([i \in 1..Len(rows) |->
               IF rows[i].data[field] = Missing THEN 0
               ELSE rows[i].n * rows[i].data[field]])

\* C13: for a tenant and a server date, once every accepted batch has been
\* aggregated, the (tenant, date) row holds total_cost = the sum of the cost
\* field, total_tokens = the sum of the token field and event_count = the
\* number of the cost events accepted on that date, a missing field counted
\* as zero, however the events were split into batches and ordered.  (Stated
\* for the date of the first request, while the date has not changed; a
\* field that is a string may count as its number or as zero.)
C13_AggregateIsSum ==
    \A a \in Tenants :
        (/\ budget.ticks = CostTicks
         /\ \A r \in Slots : reqs[r].pc # "aggregate")
        => LET rows == C13_CostRows(a)
               agg == CostRow(a, DateOf(now))
           IN /\ agg.event_count = RowCount(rows)
              /\ agg.total_cost \in {C13_Numeric(rows, "cost_usd"),
                                     C13_NumbersOnly(rows, "cost_usd", "cost_str")}
              /\ agg.total_tokens \in {C13_Numeric(rows, "tokens"),
                                       C13_NumbersOnly(rows, "tokens", "tokens_str")}

\* The step with which the evaluation of slot e reads the aggregate row
C14_ReadsAggregate(e) ==
    /\ evals[e].pc = "metric"
    /\ evals[e].rules[evals[e].i].metric \in {"daily_cost", "daily_tokens"}
    /\ EvalStep(e)

\* The upsert for the cost events of the batch in slot r has been applied by
\* the step that returns the response and starts the evaluation.
C14_UpsertBeforeStart(r) ==
    LET a == reqs[r].agent
        n == BatchLen(SelectSeq(reqs[r].batch, LAMBDA g : g.e.kind.s = K_cost))
    IN (Started(r) /\ n > 0)
       => /\ reqs[r].pc = "aggregate"
          /\ \E c \in cost_daily' :
                /\ c.agent_id = a /\ c.date = DateOf(now)
                /\ c.event_count = CostRow(a, DateOf(now)).event_count + n
          /\ evals'[r].costs = n

\* C14 as stated: the upsert for a batch's cost events completes before the
\* response is returned and before the evaluation of the batch begins, so
\* the daily_cost / daily_tokens row that the evaluation reads includes the
\* batch's own cost events.
C14_EvaluationSeesOwnCosts ==
    [][\A e \in Slots :
          /\ C14_UpsertBeforeStart(e)
          /\ C14_ReadsAggregate(e)
                => CostRow(evals[e].agent, DateOf(now)).event_count >= evals[e].costs]_vars

\* C14, amended: the upsert completes before the response is returned and
\* before the evaluation begins, so the row of the date of the upsert
\* includes the batch's cost events from then on; the evaluation reads the
\* row of the server date at its query, which includes them unless the date
\* has changed since the upsert.
C14_EvaluationSeesOwnCostsSameDay ==
    [][\A e \in Slots :
          /\ C14_UpsertBeforeStart(e)
          /\ evals[e].pc # "idle"
                => CostRow(evals[e].agent, evals[e].day).event_count >= evals[e].costs
          /\ (C14_ReadsAggregate(e) /\ DateOf(now) = evals[e].day)
                => CostRow(evals[e].agent, DateOf(now)).event_count >= evals[e].costs]_vars

\* An evaluation has read a daily cost over the threshold that its own
\* batch's cost events brought about.
C14_OwnCostsTrigger ==
    \E e \in Slots :
        /\ evals[e].pc = "dedup"
        /\ evals[e].rules[evals[e].i].metric = "daily_cost"
        /\ evals[e].costs = 2
        /\ evals[e].val = 1200

----------------------------------------------------------------------------
(* Properties of retention, under SpecReaper *)

\* The step is a statement of the scheduled retention run
ReaperStep == reaper' # reaper

\* The step leaves every stored event as it is: it only appends
OnlyAppends == Len(events') >= Len(events) /\ SubSeq(events', 1, Len(events)) = events

\* C15: events are immutable and append-only for tenants: no operation
\* updates a stored event, and only the retention run ever deletes one; no
\* tenant-callable endpoint removes events.
C15_OnlyReaperDeletes == [][OnlyAppends \/ ReaperStep]_vars

\* The start of the retention window of the tenant that owns the row: the
\* limits are those that ingestion applies to the tenant
WindowStart(row, clock) ==
    clock - LimitsOf(agents[row.agent_id].plan).retentionDays * DAY

\* C16: after a run of the retention reaper at time now, no event of any
\* tenant older than now - retentionDays of the tenant's plan (the limits
\* that ingestion applies to the tenant) remains, and no aggregate row dated
\* more than 90 days before today.  (Stated for a run that no ingest request
\* and no change of the clock falls into.)
C16_ExpiredGoneAfterRun ==
    [][(/\ reaper = "cost" /\ reaper' = "idle"
        /\ budget.ingests = ReaperIngests
        /\ budget.ticks = ReaperTicks)
       => /\ \A i \in 1..Len(events') : events'[i].ts >= WindowStart(events'[i], now)
          /\ \A c \in cost_daily' : c.date >= DateOf(now) - 90]_vars

\* C17: a statement of the retention run, at whatever point of concurrent
\* ingest requests it falls, keeps every event whose timestamp is within its
\* tenant's retention window (one exactly at the cutoff included) and adds
\* none, keeps today's aggregate rows, and so leaves the trailing-24h count
\* of every tenant and the verdict on every request in flight as they were;
\* it changes no rule and no tenant.
C17_ReaperBesideIngest ==
    [][ReaperStep
       => LET inWindow(row) == row.ts >= WindowStart(row, now) IN
          /\ SelectSeq(events', inWindow) = SelectSeq(events, inWindow)
          /\ \A i \in 1..Len(events') : \E j \in 1..Len(events) : events'[i] = events[j]
          /\ \A c \in cost_daily : c.date = DateOf(now) => c \in cost_daily'
          /\ cost_daily' \subseteq cost_daily
          /\ \A a \in Tenants :
                RowCount(SelectSeq(events', LAMBDA row :
                    row.agent_id = a /\ row.ts >= now - DAY))
                = CountSince(a, now - DAY)
          /\ \A r \in Slots :
                reqs[r].pc = "validate"
                => GateError(reqs[r].agent, reqs[r].batch, now)'
                   = GateError(reqs[r].agent, reqs[r].batch, now)
          /\ UNCHANGED <<alerts, nextAlertId, agents, registerAttempts, sdk, reqs, evals, resp>>]_vars

\* The run has deleted events while an ingest request waits for its insert.
C17_ReapedBesideRequest ==
    \E r \in Slots :
        /\ reqs[r].pc = "insert"
        /\ reaper = "cost"
        /\ budget.ops = ReaperOps - 1
        /\ Len(events) < NumTenants * Len(OldTs) + 1

----------------------------------------------------------------------------
(* Properties of rule management, under SpecRules *)

\* C18: a tenant never owns more than 10 rules, whatever creates and
\* deletes have run and however concurrent creates of the tenant interleave;
\* a create attempted while 10 exist is rejected (429 for a well-formed
\* body) and stores nothing.
C18_AtMostTenRules ==
    [][/\ \A a \in Tenants :
             Len(SelectSeq(alerts', LAMBDA rule : rule.agent_id = a)) <= MAX_RULES
       /\ \A r \in Slots :
             (reqs[r].pc = "check" /\ reqs'[r] # reqs[r]
              /\ Len(RulesOf(reqs[r].agent)) >= MAX_RULES)
             => /\ reqs'[r] = IdleReq
                /\ resp'.op = "createAlert" /\ resp'.status \in {400, 429}
                /\ alerts' = alerts]_vars

\* C19: PATCH and DELETE /v1/alerts/{id} with an id that names a rule of
\* another tenant, or no rule, answer 404 in both cases and leave every rule
\* as it is.  (A PATCH whose body is itself refused may answer 400.)
C19_NotOwnedIs404 ==
    [][(/\ resp'.op \in {"patchAlert", "deleteAlert"}
        /\ budget'.ops < budget.ops
        /\ reqs' = reqs
        /\ ~\E i \in 1..Len(alerts) :
               alerts[i].id = resp'.id /\ alerts[i].agent_id = resp'.agent)
       => /\ resp'.status \in {400, 404}
          /\ alerts' = alerts]_vars

----------------------------------------------------------------------------
(* SpecStreak: the evaluations of SpecEval for a tenant whose history is   *)
(* one failed cron run followed by one successful run                      *)

InitStreak ==
    /\ now = T0
    /\ agents = [t \in Tenants |->
                    IF t = 1 THEN Account(t, "owner@example.com", "free")
                    ELSE Account(t, "", "free")]
    /\ events = <<CronRow(1, T0 - 300, "fail", 1), CronRow(1, T0 - 200, "success", 1)>>
    /\ cost_daily = {}
    /\ alerts = <<Rule(1, 1, "cron_fail_streak", "gte", 0, "webhook", HookOk),
                  Rule(2, 1, "cron_fail_count", "gte", 1, "email", NullUrl),
                  Rule(3, 1, "daily_events", "gte", 1, "webhook", HookOk)>>
    /\ nextAlertId = 4
    /\ heartbeats = [t \in Tenants |-> 0]
    /\ registerAttempts = NoAttempts
    /\ sdk = NewSdk
    /\ reaper = "idle"
    /\ reqs = [r \in Slots |-> IdleReq]
    /\ evals = [r \in Slots |-> IdleEval]
    /\ resp = NoResp
    /\ deliveries = <<>>
    /\ budget = [ingests |-> StreakIngests, ticks |-> StreakTicks, ops |-> 0, reads |-> 0]

SpecStreak == InitStreak /\ [][NextEval]_vars

----------------------------------------------------------------------------
(* Properties of the streak example, under SpecStreak *)

\* The status of the tenant's p-th cron event in descending timestamp order
\* (of equal timestamps, the later insert first), and the number of its cron
\* events
C21_StatusAt(a, p) ==
    LET i == CHOOSE i \in C20_Cron(a) :
                 C20_Ahead(a, i) < p /\ p <= C20_Ahead(a, i) + events[i].n
    IN IF events[i].data.ty = "object" THEN events[i].data.status ELSE ""
C21_Total(a) ==
    SumSeq([j \in 1..Len(events) |-> IF j \in C20_Cron(a) THEN events[j].n ELSE 0])

\* The tenant's cron events, most recent first: fail, fail, success, fail
C21_Given(a) ==
    /\ C21_Total(a) = 4
    /\ <<C21_StatusAt(a, 1), C21_StatusAt(a, 2), C21_StatusAt(a, 3), C21_StatusAt(a, 4)>>
          = <<"fail", "fail", "success", "fail">>

\* The step in which a cron_fail_streak rule that is not skipped gets its value
C21_StreakRead(e) ==
    /\ evals[e].pc = "metric"
    /\ evals[e].rules[evals[e].i].metric = "cron_fail_streak"
    /\ evals[e].cron
    /\ evals'[e].pc = "dedup"

\* C21, as stated: for a tenant whose cron events, most recent first, have
\* the statuses fail, fail, success, fail, cron_fail_streak evaluates to 1.
C21_StreakIsOne ==
    [][\A e \in Slots :
          (C21_StreakRead(e) /\ C21_Given(evals[e].agent)) => evals'[e].val = 1]_vars

\* C21, amended: for a tenant whose cron events, most recent first, have the
\* statuses fail, fail, success, fail, cron_fail_streak evaluates to 2, the
\* length of the leading run of failures before the first success.
C21_StreakIsTwo ==
    [][\A e \in Slots :
          (C21_StreakRead(e) /\ C21_Given(evals[e].agent)) => evals'[e].val = 2]_vars

\* An evaluation has read the streak of a tenant whose cron events are
\* fail, fail, success, fail.
C21_ReadForExample ==
    \E e \in Slots :
        /\ evals[e].pc = "dedup"
        /\ evals[e].rules[evals[e].i].metric = "cron_fail_streak"
        /\ evals[e].val = 2
        /\ C21_Given(evals[e].agent)

----------------------------------------------------------------------------
(* Properties of the cron_fail_count rule, under SpecEval *)

\* The number of the tenant's cron events with status "fail" and a timestamp
\* in the 24 hours before clock
C22_FailsInDay(a, clock) ==
    SumSeq([j \in 1..Len(events) |->
               IF /\ j \in C20_Cron(a)
                  /\ events[j].data.ty = "object" /\ events[j].data.status = "fail"
                  /\ events[j].ts >= clock - DAY
               THEN events[j].n ELSE 0])

\* C22: a cron_fail_count rule is skipped exactly when the batch of the
\* evaluation holds no cron event; when the batch holds a cron event of any
\* status, the rule is compared with the number of the tenant's failed cron
\* events of the trailing 24 hours.
C22_SkippedIffNoCron ==
    [][\A e \in Slots :
          LET task == evals[e]
              rule == task.rules[task.i]
              n == C22_FailsInDay(task.agent, now)
          IN (task.pc = "metric" /\ rule.metric = "cron_fail_count" /\ EvalStep(e))
             => \/ task.fate # "completes" /\ evals'[e] = IdleEval
                \/ ~task.cron /\ evals'[e] = NextRule(task)
                \/ /\ task.cron
                   /\ evals'[e] =
                         IF Triggered(rule.op, n, rule.threshold)
                         THEN [task EXCEPT !.pc = "dedup", !.val = n]
                         ELSE NextRule(task)]_vars

----------------------------------------------------------------------------
(* SpecDelivery: two tenants, one with and one without a registered email, *)
(* each with a webhook rule and an email rule that every batch triggers;   *)
(* evaluations run beside each other and deliveries settle either way      *)

InitDelivery ==
    /\ now = T0
    /\ agents = [t \in Tenants |->
                    IF t = 1 THEN Account(t, "owner@example.com", "free")
                    ELSE Account(t, "", "free")]
    /\ events = <<>>
    /\ cost_daily = {}
    /\ alerts = <<Rule(1, 1, "daily_events", "gte", 1, "webhook", HookOk),
                  Rule(2, 1, "daily_events", "gte", 1, "email", NullUrl),
                  Rule(3, NumTenants, "daily_events", "gte", 1, "email", NullUrl)>>
    /\ nextAlertId = 4
    /\ heartbeats = [t \in Tenants |-> 0]
    /\ registerAttempts = NoAttempts
    /\ sdk = NewSdk
    /\ reaper = "idle"
    /\ reqs = [r \in Slots |-> IdleReq]
    /\ evals = [r \in Slots |-> IdleEval]
    /\ resp = NoResp
    /\ deliveries = <<>>
    /\ budget = [ingests |-> DeliveryIngests, ticks |-> DeliveryTicks, ops |-> 0, reads |-> 0]

NextDelivery ==
    \/ \E r \in Slots, a \in {1, NumTenants} : IngestReceive(r, a, <<Seg(V_metric(now), 1)>>)
    \/ \E r \in Slots : IngestGate(r)
    \/ \E r \in Slots, fate \in Fates : IngestInsert(r, fate)
    \/ \E e \in Slots : EvalLoad(e)
    \/ \E e \in Slots : EvalMetric(e)
    \/ \E e \in Slots : EvalDedup(e)
    \/ \E e \in Slots : EvalFire(e)
    \/ \E e \in Slots : EvalEmail(e)
    \/ \E e \in Slots : EvalThrow(e)
    \/ \E e \in Slots : EvalDrop(e)
    \/ \E k \in 1..MaxSettled, outcome \in {"delivered", "failed", "skipped"} : Settle(k, outcome)
    \/ \E d \in {3601} : Quiet /\ Tick(d)

SpecDelivery == InitDelivery /\ [][NextDelivery]_vars

----------------------------------------------------------------------------
(* Properties of the delivery of a firing, under SpecDelivery *)

\* The alert_fired rows the evaluator has written for a rule of a tenant with
\* timestamp ts, and the delivery attempts made for the firing of that
\* timestamp
C23_Records(a, rule_id, ts) ==
    RowCount(SelectSeq(events, LAMBDA row :
        /\ row.agent_id = a /\ row.kind = K_alert_fired /\ row.by = "evaluator"
        /\ row.data.rule_id = rule_id /\ row.ts = ts))
C23_Attempts(a, rule_id, ts) ==
    Len(SelectSeq(deliveries, LAMBDA d :
        d.agent_id = a /\ d.rule_id = rule_id /\ d.fired = ts))

\* Every attempt has its record, and no record has more than one attempt.
C23_OneAttemptPerRecord ==
    \A k \in 1..Len(deliveries) :
        LET d == deliveries[k] IN
        /\ C23_Records(d.agent_id, d.rule_id, d.fired) >= 1
        /\ C23_Attempts(d.agent_id, d.rule_id, d.fired)
              <= C23_Records(d.agent_id, d.rule_id, d.fired)

\* A step that makes an attempt is a step of an evaluation that is at, or
\* past, the insert of the alert_fired row of the rule it is delivering.
C23_AttemptByFiringTask ==
    Len(deliveries') > Len(deliveries)
    => /\ Len(deliveries') = Len(deliveries) + 1
       /\ \E e \in Slots :
             LET task == evals[e]
                 d == deliveries'[Len(deliveries')]
             IN /\ task.pc \in {"fire", "email"}
                /\ EvalStep(e)
                /\ d.agent_id = task.agent
                /\ d.rule_id = task.rules[task.i].id
                /\ d.fired = task.ts
                /\ task.pc = "email"
                   => C23_Records(task.agent, d.rule_id, task.ts) >= 1

\* A delivery that settles, whatever its outcome, and an email that is
\* skipped for want of an address leave every stored row in place.
C23_RecordStays ==
    /\ (\E k \in 1..Len(deliveries) : deliveries'[k] # deliveries[k]) => events' = events
    /\ \A e \in Slots : (evals[e].pc = "email" /\ EvalStep(e)) => events' = events
    /\ OnlyAppends

\* C23: a delivery attempt for a rule (webhook POST or email) is made only
\* after an alert_fired row for that rule and tenant was written in the same
\* evaluation; an alert_fired row gives rise to at most one attempt; and a
\* failed or skipped delivery leaves the row in place.
C23_RecordThenOneAttempt ==
    /\ []C23_OneAttemptPerRecord
    /\ [][C23_AttemptByFiringTask /\ C23_RecordStays]_vars

\* A webhook delivery has failed and an email was skipped for a tenant
\* without an address, and the records of both firings are stored.
C23_FailedAndSkipped ==
    /\ \E k \in 1..Len(deliveries) :
          /\ deliveries[k].channel = "webhook" /\ deliveries[k].outcome = "failed"
          /\ C23_Records(deliveries[k].agent_id, deliveries[k].rule_id, deliveries[k].fired) = 1
    /\ \E i \in 1..Len(events) :
          /\ events[i].kind = K_alert_fired /\ events[i].by = "evaluator"
          /\ events[i].agent_id = NumTenants
          /\ C23_Attempts(NumTenants, events[i].data.rule_id, events[i].ts) = 0
          /\ \A e \in Slots : evals[e].pc = "idle"

----------------------------------------------------------------------------
(* SpecUrl: rule creation and rule update with webhook URLs of every class *)
(* that isValidWebhookUrl tells apart, for a tenant with a webhook rule    *)
(* and an email rule.  A URL is given as new URL(url) parses it: protocol  *)
(* and the labels of the lower-cased hostname.                             *)

UrlsTried ==
    {Url("http:", <<"example", "com">>),
     Url("https:", <<"public", "example", "com">>),
     Url("https:", <<"localhost">>),
     Url("https:", <<"printer", "local">>),
     Url("https:", <<"127", "0", "0", "1">>),
     Url("https:", <<"10", "0", "0", "1">>),
     Url("https:", <<"172", "16", "0", "1">>),
     Url("https:", <<"172", "32", "0", "1">>),
     Url("https:", <<"192", "168", "1", "1">>),
     Url("https:", <<"169", "254", "169", "254">>),
     Url("https:", <<"metadata", "google", "internal">>),
     Url("https:", <<"10", "example", "com">>),
     Url("https:", <<"8", "8", "8", "8">>)}

UrlCreateBodies ==
    {RuleBody("r", "daily_events", "gte", 1, ch, u) :
        ch \in {"", "webhook", "email"}, u \in UrlsTried}

UrlPatchBodies == {PatchBody("unset", u, Unset) : u \in UrlsTried}

InitUrl ==
    Store("free", 0, T0 - 60,
          <<Rule(1, 1, "daily_events", "gte", 1, "webhook", HookOk),
            Rule(2, 1, "daily_events", "gte", 1, "email", NullUrl)>>,
          [ingests |-> 0, ticks |-> 0, ops |-> UrlOps, reads |-> 0])

NextUrl ==
    \/ \E a \in Tenants, body \in UrlCreateBodies : CreateAlert(a, body)
    \/ \E a \in Tenants, id \in {1, 2}, body \in UrlPatchBodies : PatchAlert(a, id, body)

SpecUrl == InitUrl /\ [][NextUrl]_vars

----------------------------------------------------------------------------
(* Properties of the webhook URL check, under SpecUrl *)

\* The decimal labels among those of UrlsTried; a host of four of them is an
\* IPv4 literal.
C24_Decimal == {"0", "1", "8", "10", "16", "32", "127", "168", "169", "172", "192", "254"}
C24_IPv4(host) == Len(host) = 4 /\ \A i \in 1..4 : host[i] \in C24_Decimal

\* 172.16.0.0/12
C24_Second12 ==
    {"16", "17", "18", "19", "20", "21", "22", "23", "24", "25", "26", "27", "28", "29",
     "30", "31"}

\* The URLs that must be refused: a scheme other than https, the host
\* localhost, a host under .local, a loopback, private or link-local IPv4
\* literal, a cloud metadata endpoint
C24_Refusable(url) ==
    \/ url.protocol # "https:"
    \/ url.host = <<"localhost">>
    \/ Len(url.host) >= 2 /\ url.host[Len(url.host)] = "local"
    \/ /\ C24_IPv4(url.host)
       /\ \/ url.host[1] \in {"127", "10"}
          \/ url.host[1] = "172" /\ url.host[2] \in C24_Second12
          \/ url.host[1] = "192" /\ url.host[2] = "168"
          \/ url.host[1] = "169" /\ url.host[2] = "254"
    \/ url.host = <<"metadata", "google", "internal">>

\* A public https URL: a DNS name that is none of the above
C24_Public(url) ==
    /\ url.parses /\ url.protocol = "https:"
    /\ ~C24_Refusable(url)
    /\ ~C24_IPv4(url.host)
    /\ Len(url.host) >= 2

\* C24: rule creation and rule update answer 400 and store or change nothing
\* for a webhook URL whose scheme is not https or whose host is localhost,
\* ends in a local-network suffix, is a loopback, private or link-local IPv4
\* literal or a cloud metadata endpoint; they accept a public https URL.
C24_UrlChecked ==
    [][/\ \A a \in Tenants, body \in UrlCreateBodies :
             CreateAlert(a, body)
             => /\ C24_Refusable(body.webhook_url)
                   => resp'.status = 400 /\ alerts' = alerts
                /\ C24_Public(body.webhook_url)
                   => /\ resp'.status = 201
                      /\ alerts' = Append(alerts, alerts'[Len(alerts')])
                      /\ alerts'[Len(alerts')].webhook_url = body.webhook_url
       /\ \A a \in Tenants, id \in {1, 2}, body \in UrlPatchBodies :
             PatchAlert(a, id, body)
             => /\ C24_Refusable(body.webhook_url)
                   => resp'.status = 400 /\ alerts' = alerts
                /\ C24_Public(body.webhook_url) => resp'.status = 200]_vars

----------------------------------------------------------------------------
(* SpecSize: batches at and over the batch sizes of the plans, with and    *)
(* without an event that fails validation, for a tenant on the free plan,  *)
(* on the pro plan or on a plan without limits of its own                  *)

SizeBatches(c) ==
    {<<Seg(V_metric(c), n)>> : n \in {99, 100, 101, 499, 500, 501}}
    \cup {<<Seg(V_cost(c, 600, 10), n)>> : n \in {100, 500}}
    \cup {<<Seg(Ev(Chars(K_dash), Num(c), NoSession, EmptyObj), 1), Seg(V_metric(c), n)>> :
             n \in {99, 100, 500}}
    \cup {<<Seg(V_metric(c), n),
            Seg(Ev(Chars(K_metric), Num(c), NoSession,
                   Obj(MAX_DATA_LEN + 1, Missing, Missing, "", 0)), 1)>> : n \in {100}}

InitSize ==
    \E plan \in {"free", "pro", "team"} :
        Store(plan, 0, T0 - 60,
              <<Rule(1, 1, "daily_events", "gte", 1, "webhook", HookOk)>>,
              [ingests |-> SizeIngests, ticks |-> SizeTicks, ops |-> 0, reads |-> 0])

NextSize ==
    \/ \E r \in Slots, b \in SizeBatches(now) : Quiet /\ IngestReceive(r, 1, b)
    \/ \E r \in Slots : IngestGate(r)
    \/ \E r \in Slots, fate \in Fates : IngestInsert(r, fate)
    \/ \E r \in Slots, fate \in Fates : IngestAggregate(r, fate)
    \/ \E e \in Slots : EvalLoad(e)
    \/ \E e \in Slots : EvalMetric(e)
    \/ \E e \in Slots : EvalDedup(e)
    \/ \E e \in Slots : EvalFire(e)
    \/ \E e \in Slots : EvalThrow(e)
    \/ \E e \in Slots : EvalDrop(e)
    \/ \E d \in {301} : Quiet /\ Tick(d)

SpecSize == InitSize /\ [][NextSize]_vars

----------------------------------------------------------------------------
(* Properties of the batch size limit, under SpecSize *)

\* maxBatchSize of the two plans: free 100, pro 500
C25_MaxBatch(plan) == IF plan = "pro" THEN 500 ELSE 100

\* The batch of the request in slot r is longer than the plan allows, or
\* longer than 500
C25_TooLong(r) ==
    LET n == BatchLen(reqs[r].batch)
        plan == agents[reqs[r].agent].plan
    IN n > 500 \/ (plan \in {"free", "pro"} /\ n > C25_MaxBatch(plan))

\* No event of the batch fails per-event validation
C25_AllValid(r) ==
    \A i \in 1..Len(reqs[r].batch) : ~C2_Invalid(reqs[r].batch[i].e, now)

\* A batch of exactly maxBatchSize valid events within the daily cap goes on
\* to the insert.
C25_FullBatchPasses(r) ==
    LET a == reqs[r].agent
        n == BatchLen(reqs[r].batch)
        plan == agents[a].plan
    IN (/\ plan \in {"free", "pro"} /\ n = C25_MaxBatch(plan)
        /\ C25_AllValid(r)
        /\ C3_Trailing(a, now) + n <= LimitsOf(plan).eventsPerDay)
       => reqs'[r].pc = "insert"

\* C25, as stated: a batch longer than the plan's maxBatchSize (free 100, pro
\* 500), or longer than 500 on any plan, is rejected with 413 before any
\* write: nothing is persisted, no aggregate changes, no evaluation starts; a
\* batch of exactly maxBatchSize events is not rejected for its size.
C25_TooLongIs413 ==
    [][\A r \in Slots :
          Leaves(r, "validate")
          => /\ C25_TooLong(r) => Refused(r, {413})
             /\ C25_FullBatchPasses(r)]_vars

\* C25, amended: such a batch is rejected before any write; the status is 413
\* when the batch is longer than 500 or none of its events fails per-event
\* validation, and 400 or 413 (the status of the validation error) when the
\* batch has at most 500 events and one of them fails validation.
C25_TooLongRejected ==
    [][\A r \in Slots :
          Leaves(r, "validate")
          => /\ C25_TooLong(r)
                => /\ Refused(r, {400, 413})
                   /\ (BatchLen(reqs[r].batch) > 500 \/ C25_AllValid(r))
                      => resp'.status = 413
             /\ C25_FullBatchPasses(r)]_vars

\* A free tenant's batch of 101 valid events has been answered 413 and has
\* left nothing in the store.
C25_Refused101 ==
    /\ agents[1].plan = "free"
    /\ resp.op = "ingest" /\ resp.agent = 1 /\ resp.status = 413
    /\ resp.error = "Batch too large"
    /\ \A i \in 1..Len(events) : events[i].agent_id # 1
    /\ cost_daily = {}
    /\ budget.ingests = SizeIngests - 1
    /\ Quiet

----------------------------------------------------------------------------
(* Properties of the validation errors, under SpecGate *)

\* The request in slot r is refused in this step, and only per-event
\* validation can be the reason: the batch has an event that fails it, is
\* within the batch size of the plan and within the daily cap.
C26_RefusedForEvent(r) ==
    LET a == reqs[r].agent
        b == reqs[r].batch
        limits == LimitsOf(agents[a].plan)
    IN /\ Leaves(r, "validate")
       /\ reqs'[r] = IdleReq
       /\ \E i \in 1..Len(b) : C2_Invalid(b[i].e, now)
       /\ BatchLen(b) \in 1..limits.maxBatchSize
       /\ C3_Trailing(a, now) + BatchLen(b) <= limits.eventsPerDay

\* C26: every rejection of a batch caused by an event failing per-event
\* validation (invalid kind, out-of-range timestamp, non-object payload,
\* payload over 16KB, invalid session key) is answered with status 400.
C26_ValidationIs400 ==
    [][\A r \in Slots : C26_RefusedForEvent(r) => resp'.status = 400]_vars

----------------------------------------------------------------------------
(* SpecRegister: registrations with every shape of body, beside each other, *)
(* and requests of the authenticated endpoints whose body cannot be read   *)

N_held == <<"t", "1">>
N_new == <<"b", "o", "b">>
N_short == <<"x">>

RegBodies ==
    {RegBody("json", Chars(n), e) :
        n \in {N_held, N_new},
        e \in {NoEmail, Email("owner@example.com", TRUE), Email("new@example.com", TRUE)}}
    \cup {RegBody("json", Chars(N_new), Email("nobody", FALSE)),
          RegBody("json", Chars(N_new), Email("", FALSE)),
          RegBody("json", Chars(N_short), NoEmail),
          RegBody("json", NoName, NoEmail)}
    \cup {RegBody(raw, NoName, NoEmail) : raw \in RawBodies \ {"json"}}

InitRegister ==
    Store("free", 0, T0 - 60, <<Rule(1, 1, "daily_events", "gte", 1, "webhook", HookOk)>>,
          [ingests |-> 0, ticks |-> 0, ops |-> RegisterOps, reads |-> 0])

NextRegister ==
    \/ \E r \in Slots, body \in RegBodies : RegisterReceive(r, "203.0.113.7", body)
    \/ \E r \in Slots, raw \in RawKeys : RegisterStore(r, raw)
    \/ \E op \in {"ingest", "createAlert", "patchAlert"}, a \in Tenants, raw \in RawBodies :
          Unreadable(op, a, raw)

SpecRegister == InitRegister /\ [][NextRegister]_vars

----------------------------------------------------------------------------
(* Properties of requests without a readable body, under SpecRegister *)

\* A body that is missing, or one that is not parseable JSON
C27_NoJson == {"none", "malformed"}

\* The step leaves every table as it is.
C27_StoreUnchanged == UNCHANGED <<agents, events, cost_daily, alerts, nextAlertId, heartbeats>>

\* The response of the step is a structured 400.
C27_Structured400 == resp'.status = 400 /\ resp'.error \notin {"", "Internal"}

\* C27: a request to /v1/ingest, to rule create or update, or to
\* /v1/register whose body is missing or is not parseable JSON is answered
\* with a structured JSON 400 error and changes no stored state; it never
\* ends in an unhandled failure.
C27_NoBodyIs400 ==
    [][/\ \A op \in {"ingest", "createAlert", "patchAlert"}, a \in Tenants, raw \in C27_NoJson :
             Unreadable(op, a, raw) => C27_Structured400 /\ C27_StoreUnchanged
       /\ \A r \in Slots :
             (reqs[r].pc = "register" /\ reqs[r].reg.raw \in C27_NoJson /\ Answered(r))
             => C27_Structured400 /\ C27_StoreUnchanged]_vars

----------------------------------------------------------------------------
(* Properties of the uniqueness of tenants, under SpecRegister *)

\* No two tenants share a name, an email or a credential hash.
C28_TenantsDistinct ==
    \A i, j \in 1..Len(agents) :
        i # j => /\ agents[i].name # agents[j].name
                 /\ agents[i].api_key_hash # agents[j].api_key_hash
                 /\ agents[i].email = "" \/ agents[i].email # agents[j].email

\* The registration in slot r is well-formed (a name of two characters or
\* more, and no email or a well-formed one) and gives a name or an email
\* that a tenant holds.
C28_Held(r) ==
    LET body == reqs[r].reg IN
    /\ reqs[r].pc = "register" /\ body.raw = "json"
    /\ body.name.ty = "string" /\ Len(body.name.s) >= 2
    /\ body.email.ty = "undefined" \/ body.email.ok
    /\ \E i \in 1..Len(agents) :
          \/ body.name.ty = "string" /\ agents[i].name = body.name.s
          \/ body.email.ty = "string" /\ body.email.s # "" /\ agents[i].email = body.email.s

\* C28: a registration with a name or an email already held by a tenant is
\* answered 409 and creates no tenant, so that after any sequence of
\* registrations no two tenants share a name, an email or a credential hash.
C28_DuplicateIs409 ==
    /\ []C28_TenantsDistinct
    /\ [][\A r \in Slots :
             (C28_Held(r) /\ Answered(r)) => resp'.status = 409 /\ agents' = agents]_vars

----------------------------------------------------------------------------
(* SpecLimit: registrations from two addresses, with and without a body,   *)
(* one at a time, shortly before and at the end of the hour that the first *)
(* one starts                                                              *)

IPs == {"203.0.113.7", "198.51.100.9"}

LimitBodies == {RegBody("json", Chars(N_new), NoEmail), RegBody("none", NoName, NoEmail)}

InitLimit ==
    Store("free", 0, T0 - 60, <<Rule(1, 1, "daily_events", "gte", 1, "webhook", HookOk)>>,
          [ingests |-> 0, ticks |-> LimitTicks, ops |-> LimitOps, reads |-> 0])

NextLimit ==
    \/ \E r \in Slots, ip \in IPs, body \in LimitBodies :
          Quiet /\ RegisterReceive(r, ip, body)
    \/ \E r \in Slots, raw \in RawKeys : RegisterStore(r, raw)
    \/ \E d \in {1, REGISTER_WINDOW - 1} : Quiet /\ Tick(d)

SpecLimit == InitLimit /\ [][NextLimit]_vars

----------------------------------------------------------------------------
(* Properties of the register rate limit, under SpecLimit *)

\* The instants at which requests of an address got past the limit, and the
\* number of them in the hour that starts at t
C29_Log(ip) == IF ip \in DOMAIN registerAttempts THEN registerAttempts[ip].log ELSE <<>>
C29_InHour(log, t) ==
    Cardinality({k \in 1..Len(log) : log[k] >= t /\ log[k] < t + 3600})

\* A request that is answered 429 at once creates no tenant and leaves the
\* limit as it is.
C29_RejectedIsInert ==
    \A r \in Slots, ip \in IPs, body \in LimitBodies :
        (/\ RegisterReceive(r, ip, body)
         /\ reqs' = reqs /\ resp'.status = 429 /\ resp'.op = "register")
        => UNCHANGED <<agents, registerAttempts>>

\* C29, as stated: within any interval of one hour at most 5 registration
\* requests from the same address get past the rate limit; every further one
\* is answered 429, creates no tenant and does not extend the limit.
C29_FiveInAnyHour ==
    /\ [](\A ip \in IPs : \A k \in 1..Len(C29_Log(ip)) :
             C29_InHour(C29_Log(ip), C29_Log(ip)[k]) <= 5)
    /\ [][C29_RejectedIsInert]_vars

RECURSIVE C29_Starts(_, _)
\* The instants that start a window: the first request of an address, and
\* each first request an hour or more after the start of the window before
C29_Starts(log, last) ==
    IF log = <<>> THEN {}
    ELSE IF Head(log) >= last + 3600
    THEN {Head(log)} \cup C29_Starts(Tail(log), Head(log))
    ELSE C29_Starts(Tail(log), last)
C29_Windows(ip) == C29_Starts(C29_Log(ip), -3600)

\* The address has had 5 requests let through in a window that is still open.
C29_Exhausted(ip) ==
    \E w \in C29_Windows(ip) : now < w + 3600 /\ C29_InHour(C29_Log(ip), w) >= 5

\* C29, amended: in each window of one hour, which the first request of an
\* address starts and after whose end the next request starts a new one, at
\* most 5 registration requests of the address get past the rate limit;
\* every further one in the window is answered 429, creates no tenant and
\* does not extend the limit, and a request outside an exhausted window gets
\* past.
C29_FivePerWindow ==
    /\ [](\A ip \in IPs : \A w \in C29_Windows(ip) : C29_InHour(C29_Log(ip), w) <= 5)
    /\ [][/\ C29_RejectedIsInert
          /\ \A r \in Slots, ip \in IPs, body \in LimitBodies :
                RegisterReceive(r, ip, body)
                => IF C29_Exhausted(ip)
                   THEN resp'.status = 429 /\ resp'.op = "register"
                   ELSE /\ reqs'[r].pc = "register"
                        /\ C29_Log(ip)' = Append(C29_Log(ip), now)]_vars

\* A sixth request of an address within its window has been answered 429
\* while a request of the other address got past.
C29_SixthRefused ==
    /\ resp.op = "register" /\ resp.status = 429
    /\ \E ip \in IPs : C29_Exhausted(ip)
    /\ \E ip \in IPs : ~C29_Exhausted(ip) /\ Len(C29_Log(ip)) >= 1

-----------------------------------------------------------------------------
(* The Node SDK client: enqueue and flush *)

SdkFrame ==
    <<now, agents, registerAttempts, events, cost_daily, alerts, nextAlertId,
      heartbeats, reaper, reqs, evals, resp, deliveries>>

\* The client c after n calls of enqueue(kind, ...) in a row: nothing on a
\* disabled client; else a call pushes one event unless the queue already
\* holds QUEUE_MAX of them, and then it drops the event.
enqueue_unshift(c, kind, n) ==
    LET room == IF QueueLen(c.queue) >= QUEUE_MAX THEN 0
                ELSE QUEUE_MAX - QueueLen(c.queue)
        k == IF n <= room THEN n ELSE room
    IN  IF ~c.enabled \/ k = 0 THEN c
        ELSE [c EXCEPT !.queue = <<Run(c.seq + 1, c.seq + k, kind)>> \o @,
                       !.seq = @ + k]
enqueue(c, kind, n) ==
    LET room == IF QueueLen(c.queue) >= QUEUE_MAX THEN 0
                ELSE QUEUE_MAX - QueueLen(c.queue)
        k == IF n <= room THEN n ELSE room
    IN  IF ~c.enabled \/ k = 0 THEN c
        ELSE [c EXCEPT !.queue = Append(@, Run(c.seq + 1, c.seq + k, kind)),
                       !.seq = @ + k]

\* The public methods that report something, and the kind each one enqueues
Methods ==
    {"sessionStart", "sessionEnd", "sessionEvent", "costEvent", "cronReport",
     "heartbeat", "metric", "alert", "memoryReport"}
KindOf(method) ==
    CASE method \in {"sessionStart", "sessionEnd", "sessionEvent"} -> "session"
      [] method = "costEvent" -> "cost"
      [] method = "cronReport" -> "cron"
      [] method = "heartbeat" -> "heartbeat"
      [] method = "metric" -> "metric"
      [] method = "alert" -> "alert"
      [] method = "memoryReport" -> "memory"

\* n calls in a row of a public method (with the session key 'main' for the
\* three session methods): sessionStart and sessionEnd note the session as
\* open or closed, whether the client is enabled or not, and every method
\* ends in one call of enqueue.
call(method, n) ==
    /\ budget.ops > 0
    /\ budget' = [budget EXCEPT !.ops = @ - 1]
    /\ LET noted == CASE method = "sessionStart" ->
                            [sdk EXCEPT !.activeSessions = @ \cup {"main"}]
                      [] method = "sessionEnd" ->
                            [sdk EXCEPT !.activeSessions = @ \ {"main"}]
                      [] OTHER -> sdk
       IN  sdk' = enqueue(noted, KindOf(method), n)
    /\ UNCHANGED SdkFrame

\* flush up to its await: it returns at once on an empty queue, else the
\* first BATCH_SIZE * 10 events leave the queue and go out in one request.
flush ==
    /\ budget.ingests > 0
    /\ budget' = [budget EXCEPT !.ingests = @ - 1]
    /\ sdk' = IF sdk.queue = <<>> THEN sdk
              ELSE [sdk EXCEPT !.queue = spliced(@, BATCH_SIZE * 10),
                               !.flights = Append(@, slice(sdk.queue, BATCH_SIZE * 10))]
    /\ UNCHANGED SdkFrame

\* The ways the request of a flush ends: a 2xx answer, another answer, or
\* an exception of fetch (no connection, or the timeout of ten seconds)
FlushOutcomes == {"ok", "status", "throws"}

\* flush after its await, for the k-th request in flight.  An answer, 2xx
\* or not, ends the flush with the batch gone; an exception puts the first
\* QUEUE_MAX / 2 events of the batch back at the head of the queue.
flushSettle(k, outcome) ==
    /\ k \in 1..Len(sdk.flights)
    /\ LET batch == sdk.flights[k]
           others == [j \in 1..(Len(sdk.flights) - 1) |->
                         IF j < k THEN sdk.flights[j] ELSE sdk.flights[j + 1]]
           requeue == slice(batch, QUEUE_MAX \div 2)
       IN  sdk' = CASE outcome = "ok" ->
                         [sdk EXCEPT !.flights = others, !.sent = @ \o batch]
                    [] outcome = "status" ->
                         [sdk EXCEPT !.flights = others, !.lost = @ \o batch]
                    [] outcome = "throws" ->
                         [sdk EXCEPT !.flights = others,
                                     !.queue = requeue \o @,
                                     !.lost = @ \o spliced(batch, QUEUE_MAX \div 2)]
    /\ UNCHANGED <<SdkFrame, budget>>

\* The sizes of the bursts of calls tried
Bursts == {1, QUEUE_MAX \div 2, QUEUE_MAX}

\* SpecSdk: a client that reports metrics in bursts, and its flushes
InitSdk ==
    StoreWith("pro", 0, T0 - 60, <<>>,
              [ingests |-> SdkFlushes, ticks |-> 0, ops |-> SdkEnqueues, reads |-> 0],
              NewSdk)

NextSdk ==
    \/ \E n \in Bursts : call("metric", n)
    \/ flush
    \/ \E k \in 1..SdkFlushes, outcome \in FlushOutcomes : flushSettle(k, outcome)

SpecSdk == InitSdk /\ [][NextSdk]_vars

\* SpecCalls: single calls of every public method, on an enabled or a
\* disabled client whose queue is empty or one event short of QUEUE_MAX
\* (a disabled client has queued nothing)
ApiKeys == {"", "ap_test123"}
EnabledOpts == {"undefined", "true", "false"}

InitCalls ==
    \E apiKey \in ApiKeys, enabled \in EnabledOpts, pre \in {0, QUEUE_MAX - 1} :
        StoreWith("pro", 0, T0 - 60, <<>>,
                  [ingests |-> CallFlushes, ticks |-> 0, ops |-> SdkCalls, reads |-> 0],
                  IF pre = 0 THEN AgentPulse(apiKey, enabled)
                  ELSE enqueue(AgentPulse(apiKey, enabled), "metric", pre))

NextCalls ==
    \/ \E method \in Methods : call(method, 1)
    \/ flush
    \/ \E k \in 1..CallFlushes, outcome \in FlushOutcomes : flushSettle(k, outcome)

SpecCalls == InitCalls /\ [][NextCalls]_vars

-----------------------------------------------------------------------------
(* Properties of the SDK client, under SpecSdk *)

\* Event number id is in the runs q
C30_Holds(q, id) == \E j \in 1..Len(q) : q[j].lo <= id /\ id <= q[j].hi

\* q holds every event of the runs batch
C30_HoldsAll(q, batch) ==
    \A j \in 1..Len(batch) : \A id \in batch[j].lo..batch[j].hi : C30_Holds(q, id)

\* C30: when a flush fails, because the request throws or because the
\* answer is not 2xx, every event of its batch is back in the queue, so that
\* no queued event is lost by a failed flush.
C30_FailedFlushRequeues ==
    [][\A k \in 1..SdkFlushes, outcome \in {"status", "throws"} :
          (k <= Len(sdk.flights) /\ flushSettle(k, outcome))
              => C30_HoldsAll(sdk'.queue, sdk.flights[k])]_vars

\* The same for the exception alone, and for the answer alone
C30_ThrownFlushRequeues ==
    [][\A k \in 1..SdkFlushes :
          (k <= Len(sdk.flights) /\ flushSettle(k, "throws"))
              => C30_HoldsAll(sdk'.queue, sdk.flights[k])]_vars
C30_RefusedFlushRequeues ==
    [][\A k \in 1..SdkFlushes :
          (k <= Len(sdk.flights) /\ flushSettle(k, "status"))
              => C30_HoldsAll(sdk'.queue, sdk.flights[k])]_vars

\* The number of events in the batches fs
RECURSIVE C30_InFlight(_)
C30_InFlight(fs) == IF fs = <<>> THEN 0 ELSE QueueLen(Head(fs)) + C30_InFlight(Tail(fs))

\* What the code keeps: every event that was queued is in the queue, in a
\* request in flight, accepted, or recorded as lost, and in one place only.
C30_Accounted ==
    QueueLen(sdk.queue) + C30_InFlight(sdk.flights)
        + QueueLen(sdk.sent) + QueueLen(sdk.lost) = sdk.seq

\* A batch of up to QUEUE_MAX / 2 events whose request throws is put back whole
C30_SmallThrownRequeues ==
    [][\A k \in 1..SdkFlushes :
          (/\ k <= Len(sdk.flights)
           /\ QueueLen(sdk.flights[k]) <= QUEUE_MAX \div 2
           /\ flushSettle(k, "throws"))
              => C30_HoldsAll(sdk'.queue, sdk.flights[k])]_vars

-----------------------------------------------------------------------------
(* Properties of the public methods of the client, under SpecCalls *)

\* A disabled client has an empty queue and has sent no request
C31_DisabledIsSilent ==
    ~sdk.enabled =>
        /\ sdk.queue = <<>>
        /\ sdk.flights = <<>>
        /\ sdk.sent = <<>>
        /\ sdk.lost = <<>>

\* One call of a public method on an enabled client whose queue is below
\* QUEUE_MAX leaves the queue as it was with one event of the method's kind
\* behind it, numbered after every event queued before.
C31_CallAppends ==
    [][\A method \in Methods :
          (call(method, 1) /\ sdk.enabled /\ QueueLen(sdk.queue) < QUEUE_MAX)
              => /\ Len(sdk'.queue) = Len(sdk.queue) + 1
                 /\ SubSeq(sdk'.queue, 1, Len(sdk.queue)) = sdk.queue
                 /\ LET last == sdk'.queue[Len(sdk'.queue)]
                    IN  /\ last.lo = last.hi
                        /\ last.lo = sdk.seq + 1
                        /\ last.kind = KindOf(method)
                 /\ \A j \in 1..Len(sdk.queue) : sdk.queue[j].hi <= sdk.seq]_vars

\* C31: on an enabled client each call of a public method appends exactly
\* one event to the queue, in call order, while the queue is below
\* QUEUE_MAX; on a disabled client the queue stays empty and no flush
\* request is ever sent.
C31_OneEventPerCall == []C31_DisabledIsSilent /\ C31_CallAppends

\* Two calls of methods of different kinds have queued their events in order
C31_TwoKindsQueued ==
    /\ sdk.enabled
    /\ Len(sdk.queue) >= 2
    /\ sdk.queue[1].kind # sdk.queue[2].kind
    /\ sdk.queue[1].hi < sdk.queue[2].lo

\* A disabled client that was called and flushed
C31_DisabledCalled ==
    ~sdk.enabled /\ budget.ops < SdkCalls /\ budget.ingests < CallFlushes

-----------------------------------------------------------------------------
(* Properties of the sizes of the queue and of the requests, under SpecSdk *)

\* C38: the queue of the client never holds more than QUEUE_MAX events,
\* also when events are queued while a flush is in flight and that flush
\* then fails and puts its batch back.
C38_QueueBounded == QueueLen(sdk.queue) <= QUEUE_MAX

\* What enqueue alone keeps: a call never makes a queue longer than QUEUE_MAX
C38_EnqueueBounded ==
    [][\A n \in Bursts :
          (call("metric", n) /\ QueueLen(sdk.queue) <= QUEUE_MAX)
              => QueueLen(sdk'.queue) <= QUEUE_MAX]_vars

\* The body of the request of a flush as the Worker reads it: as many
\* events as the batch has, each one valid
C39_Wire(batch) == <<Seg(V_metric(now), QueueLen(batch))>>

\* C39: every request of a flush carries at most BATCH_SIZE events, so that
\* the Worker never refuses it for its size on the pro plan (the plan of
\* tenant 1 here).
C39_RequestWithinBatchSize ==
    \A k \in 1..Len(sdk.flights) :
        /\ QueueLen(sdk.flights[k]) <= BATCH_SIZE
        /\ GateError(1, C39_Wire(sdk.flights[k]), now)
               \notin {"Max 500 events per batch", "Batch too large"}

\* What the code keeps: a request carries at most BATCH_SIZE * 10 events
C39_RequestWithinTenBatches ==
    \A k \in 1..Len(sdk.flights) : QueueLen(sdk.flights[k]) <= BATCH_SIZE * 10

-----------------------------------------------------------------------------
(* Who writes the firing records, under SpecDedup *)

\* C34: every alert_fired event in the store was written by the Alert
\* Evaluator; no alert_fired event comes in through POST /v1/ingest.
C34_FiredByEvaluator ==
    \A i \in 1..Len(events) :
        events[i].kind = K_alert_fired => events[i].by = "evaluator"

\* What holds of the rows the evaluator writes itself: each one names a rule
\* of the tenant that owns the row
C34_EvaluatorRowsOwnRule ==
    \A i \in 1..Len(events) :
        (events[i].kind = K_alert_fired /\ events[i].by = "evaluator")
            => \E j \in 1..Len(alerts) :
                  /\ alerts[j].id = events[i].data.rule_id
                  /\ alerts[j].agent_id = events[i].agent_id

-----------------------------------------------------------------------------
(* Cost events without a payload, under SpecGate *)

\* The batch has a cost event whose payload is absent or null
C33_CostWithoutPayload(b) ==
    \E i \in 1..Len(b) :
        b[i].e.kind = Chars(K_cost) /\ b[i].e.data.ty \in {"undefined", "null"}

\* C33: a batch with a cost event whose payload is absent or null, once it
\* has passed the validation and the quota checks, is answered 200 with all
\* of its events accepted, and no step that has written its events answers
\* with an error.
C33_NoPayloadAccepted ==
    [][\A r \in Slots :
          LET b == reqs[r].batch
          IN  (/\ C33_CostWithoutPayload(b)
               /\ reqs[r].pc \in {"insert", "aggregate"}
               /\ Answered(r))
                  => /\ resp' = Reply("ingest", reqs[r].agent, 0, 200, BatchLen(b))
                     /\ RowCount(Added) = (IF reqs[r].pc = "insert" THEN BatchLen(b) ELSE 0)]_vars

\* The half of it that is about the order: an error answer after the events
\* of the batch were written
C33_NoErrorAfterPersist ==
    [][\A r \in Slots :
          (Leaves(r, "insert") /\ Len(events') > Len(events) /\ Answered(r))
              => resp'.status = 200]_vars

\* What holds before the insert: the validation loop lets such an event pass
C33_PassesValidation ==
    \A r \in Slots :
        (reqs[r].pc = "validate" /\ C33_CostWithoutPayload(reqs[r].batch)
            /\ Len(reqs[r].batch) = 1)
            => ValidationError(reqs[r].batch, now) = ""

-----------------------------------------------------------------------------
(* SpecCap: a tenant on the free plan whose store is empty sends, one      *)
(* request after another within a few hours, batches of events that carry  *)
(* a timestamp of more than a day ago                                      *)

\* A full batch of the free plan, timestamped a day and a second before c
OldBatch(c) == <<Seg(V_metric(c - DAY - 1), PLAN_LIMITS["free"].maxBatchSize)>>

InitCap ==
    Store("free", 0, T0 - 60, <<>>,
          [ingests |-> CapIngests, ticks |-> CapTicks, ops |-> 0, reads |-> 0])

NextCap ==
    \/ \E r \in Slots : Quiet /\ IngestReceive(r, 1, OldBatch(now))
    \/ \E r \in Slots : IngestGate(r)
    \/ \E r \in Slots : IngestInsert(r, "completes")
    \/ \E e \in Slots : EvalLoad(e)
    \/ \E d \in {3600} : Quiet /\ Tick(d)

SpecCap == InitCap /\ [][NextCap]_vars

\* The events that /v1/ingest has accepted from tenant a (the tenant's store
\* is empty at the start, and nothing is deleted under SpecCap)
C35_Accepted(a) ==
    RowCount(SelectSeq(events, LAMBDA row : row.agent_id = a /\ row.by = "gateway"))

\* C35: with no concurrent requests, the number of events accepted from one
\* tenant within 24 hours of server time never exceeds the plan's
\* dailyEventCap, whatever timestamps the events carry.
C35_CapBoundsAccepted ==
    now - T0 < DAY => C35_Accepted(1) <= LimitsOf(agents[1].plan).eventsPerDay

\* What the count of the handler bounds: the events whose own timestamp is
\* in the last 24 hours (or later)
C35_CapBoundsCounted ==
    CountSince(1, now - DAY) <= LimitsOf(agents[1].plan).eventsPerDay

-----------------------------------------------------------------------------
(* Rules disabled or deleted beside an evaluation in flight, under Spec *)

\* Rule id of tenant a is stored and enabled
C36_Live(a, id) ==
    \E i \in 1..Len(alerts) :
        alerts[i].id = id /\ alerts[i].agent_id = a /\ alerts[i].enabled

\* The step records a firing of rule id of tenant a, or makes a delivery
\* for it
C36_Fires(a, id) ==
    /\ Len(events') = Len(events) + 1
    /\ LET row == events'[Len(events')]
       IN  /\ row.kind = K_alert_fired /\ row.by = "evaluator"
           /\ row.agent_id = a /\ row.data.rule_id = id
C36_Delivers(a, id) ==
    /\ Len(deliveries') = Len(deliveries) + 1
    /\ LET d == deliveries'[Len(deliveries')]
       IN  d.agent_id = a /\ d.rule_id = id

\* C36: once a PATCH that disables a rule, or a DELETE of the rule, has
\* returned, no alert_fired event and no delivery for that rule is produced,
\* even by an evaluation that loaded its rule list earlier.
C36_NothingAfterDisable ==
    [][\A a \in Tenants, id \in 1..nextAlertId :
          (C36_Fires(a, id) \/ C36_Delivers(a, id)) => C36_Live(a, id)]_vars

\* C36, amended: an evaluation loads the tenant's rules that are stored and
\* enabled at that moment and keeps this list to its end; a firing or a
\* delivery for a rule is produced only by an evaluation that has the rule in
\* the list it loaded.
C36_OnlyLoadedRulesFire ==
    [][/\ \A e \in Slots :
             /\ (evals[e].pc = "load" /\ evals'[e].pc \notin {"load", "idle"})
                   => evals'[e].rules =
                         SelectSeq(alerts, LAMBDA rule :
                             rule.agent_id = evals[e].agent /\ rule.enabled)
             /\ (evals[e].pc = "load" /\ evals'[e].pc = "idle")
                   => \A id \in 1..nextAlertId : ~C36_Live(evals[e].agent, id)
             /\ (evals[e].pc \notin {"load", "idle"} /\ evals'[e].pc # "idle")
                   => evals'[e].rules = evals[e].rules
       /\ \A a \in Tenants, id \in 1..nextAlertId :
             (C36_Fires(a, id) \/ C36_Delivers(a, id))
                 => \E e \in Slots :
                       /\ evals[e].agent = a
                       /\ evals[e].pc \in {"fire", "email"}
                       /\ evals[e].rules[evals[e].i].id = id]_vars

\* A PATCH or DELETE of rule 1 has returned 200, the rule is no longer
\* stored and enabled, and an evaluation that loaded it is about to record
\* its firing
C36_FiringOfDisabledRule ==
    /\ resp.op \in {"patchAlert", "deleteAlert"} /\ resp.id = 1 /\ resp.status = 200
    /\ ~C36_Live(1, 1)
    /\ \E e \in Slots :
          /\ evals[e].agent = 1
          /\ evals[e].pc = "fire"
          /\ evals[e].rules[evals[e].i].id = 1

-----------------------------------------------------------------------------
(* The channel and the URL of the stored rules, under Spec *)

\* C37: every stored rule is deliverable: its channel is email, or it is
\* webhook together with a non-empty admissible URL.
C37_RulesDeliverable ==
    \A i \in 1..Len(alerts) :
        \/ alerts[i].channel = "email"
        \/ /\ alerts[i].channel = "webhook"
           /\ UrlTruthy(alerts[i].webhook_url)
           /\ isValidWebhookUrl(alerts[i].webhook_url)

\* The two halves of it: the channel is one of the two, and a webhook rule
\* has a URL
C37_ChannelKnown ==
    \A i \in 1..Len(alerts) : alerts[i].channel \in {"webhook", "email"}
C37_WebhookHasUrl ==
    \A i \in 1..Len(alerts) :
        alerts[i].channel = "webhook" => UrlTruthy(alerts[i].webhook_url)

\* What create alone keeps: a rule that POST /v1/alerts stores with the
\* webhook channel has a non-empty admissible URL
C37_CreatedWebhookHasUrl ==
    [][\A a \in Tenants, body \in CreateBodies :
          (CreateAlert(a, body) /\ Len(alerts') > Len(alerts)
              /\ alerts'[Len(alerts')].channel = "webhook")
              => /\ UrlTruthy(alerts'[Len(alerts')].webhook_url)
                 /\ isValidWebhookUrl(alerts'[Len(alerts')].webhook_url)]_vars

-----------------------------------------------------------------------------
(* SpecLive: the tenant of SpecEval, with evaluations that meet no store   *)
(* error and are not dropped, and whose steps are taken when they can be   *)

\* A step of the evaluation in slot e
evaluateAlerts(e) ==
    \/ EvalLoad(e)
    \/ EvalMetric(e)
    \/ EvalDedup(e)
    \/ EvalFire(e)
    \/ EvalEmail(e)

InitLive == InitEval

NextLive ==
    \/ \E r \in Slots, b \in EvalBatches(now) : Quiet /\ IngestReceive(r, 1, b)
    \/ \E r \in Slots : IngestGate(r)
    \/ \E r \in Slots : IngestInsert(r, "completes")
    \/ \E e \in Slots : evaluateAlerts(e)
    \/ \E d \in {3601} : Quiet /\ Tick(d)

\* Each continuation of a handler or of a task runs once the statement it
\* awaits has settled: a step of a request or of an evaluation that stays
\* possible is taken.  Nothing obliges a client to send a request.
SpecLive ==
    /\ InitLive
    /\ [][NextLive]_vars
    /\ \A r \in Slots : WF_vars(IngestGate(r) \/ IngestInsert(r, "completes"))
    /\ \A e \in Slots : WF_vars(evaluateAlerts(e))

\* The instants of SpecLive
C32_Instants == {T0 + k * 3601 : k \in 0..EvalTicks}

\* currentValue of a rule as the spec defines the metrics, at this instant
C32_Value(rule) ==
    CASE rule.metric = "daily_cost" -> CostRow(rule.agent_id, DateOf(now)).total_cost
      [] rule.metric = "daily_tokens" -> CostRow(rule.agent_id, DateOf(now)).total_tokens
      [] rule.metric = "daily_events" -> CountSince(rule.agent_id, now - DAY)
      [] rule.metric = "cron_fail_count" -> CronFailCount(rule.agent_id, now - DAY)
      [] rule.metric = "cron_fail_streak" -> CronFailStreak(rule.agent_id)

\* At instant t a batch has just been accepted (its evaluation, in slot e,
\* has not yet loaded the rules), the condition of rule j of the store is
\* satisfied, the batch has cron events if the metric is one of the cron
\* metrics, and no alert_fired event of the rule exists in the last hour
C32_Due(e, j, t) ==
    /\ now = t
    /\ evals[e].pc = "load"
    /\ j <= Len(alerts)
    /\ alerts[j].enabled
    /\ alerts[j].agent_id = evals[e].agent
    /\ Triggered(alerts[j].op, C32_Value(alerts[j]), alerts[j].threshold)
    /\ alerts[j].metric \in {"cron_fail_count", "cron_fail_streak"} => evals[e].cron
    /\ ~recentFire(alerts[j].agent_id, alerts[j].id, now)

\* An alert_fired event of rule j, written at instant t or later, is stored
C32_Fired(j, t) ==
    /\ j <= Len(alerts)
    /\ \E i \in 1..Len(events) :
          /\ IsRecentFire(events[i], alerts[j].agent_id, alerts[j].id, t)
          /\ events[i].by = "evaluator"

\* C32: if an accepted batch leaves the condition of an enabled rule
\* satisfied (for the cron metrics: and the batch has cron events) and no
\* alert_fired event of the rule exists in the preceding hour, then an
\* alert_fired event of the rule is eventually stored.
C32_DueRuleFires ==
    \A e \in Slots, j \in 1..3, t \in C32_Instants :
        C32_Due(e, j, t) ~> C32_Fired(j, t)

\* The same for the rules whose metric is not cron_fail_count
C32_DueRuleFiresButCount ==
    \A e \in Slots, j \in 1..3, t \in C32_Instants :
        (C32_Due(e, j, t) /\ alerts[j].metric # "cron_fail_count") ~> C32_Fired(j, t)

\* The same for cron_fail_count when the batch has a failed cron event
C32_DueCountFiresOnFail ==
    \A e \in Slots, j \in 1..3, t \in C32_Instants :
        (C32_Due(e, j, t) /\ evals[e].cronFail) ~> C32_Fired(j, t)

====
